---- MODULE Spec2Model ----
(***************************************************************************)
(* coderef: the library resolver (keyword extraction, confidence scoring,  *)
(* resolution over the documentation-search interface), the caller's       *)
(* policy in main, the configuration file, the API key format, the agent's *)
(* response filter, the documentation client (request, error mapping, key  *)
(* validation), main's startup (token limit, API key lookup) and a session *)
(* of several calls on one resolver.  Each is a specification of its own   *)
(* over the same variables; pc tells which one a behaviour belongs to.     *)
(*                                                                         *)
(* Text is a sequence of one-character strings, so that matching and       *)
(* substring tests are computed character by character.  Scores are        *)
(* fixed-point numbers in units of 0.00001 (ONE = 1.0), so sums of the     *)
(* weights are exact decimals; the program's binary floats agree with them *)
(* up to rounding in the last place.                                       *)
(***************************************************************************)
EXTENDS Integers, Sequences, FiniteSets, TLC

VARIABLES pc, question, keywords, match, score, confidence, level,
          idx, all_results, calls, responses, ret,
          library, version, skip_detect, debug, printed, outcome, request,
          exit_code, resolve_calls,
          cli_tokens, env_api_key, main_api_key, config_log,
          dir_writable, file, op, last_set,
          content_blocks, final_text,
          client_op,
          catalog, ref

\* the state of the command-line caller (main.py)
callerVars == <<library, version, skip_detect, debug, printed, outcome,
                request, exit_code, resolve_calls,
                cli_tokens, env_api_key, main_api_key, config_log>>

\* the state of the configuration file and the last ConfigManager call
configVars == <<dir_writable, file, op, last_set>>

\* the state of the agent's response filter
agentVars == <<content_blocks, final_text>>

\* the state of the resolver
resolverVars == <<question, keywords, match, score, confidence, level,
                  idx, all_results, calls, responses, ret>>

\* the last call of a Context7Client method
clientVars == <<client_op>>

\* the resolver instance's keyword list (self.all_keywords), and a finished
\* resolve_from_question call remembered for comparison with later ones
sessionVars == <<catalog, ref>>

vars == <<pc, resolverVars, callerVars, configVars, agentVars, clientVars,
          sessionVars>>

(***************************************************************************)
(* Characters: str.lower(), str.isalnum() and the regex class \w, on the   *)
(* ASCII letters, digits and punctuation the model's texts use.            *)
(***************************************************************************)
UpperLetters ==
    <<"A","B","C","D","E","F","G","H","I","J","K","L","M","N","O","P","Q","R","S","T","U","V","W","X","Y","Z">>

LowerLetters ==
    <<"a","b","c","d","e","f","g","h","i","j","k","l","m","n","o","p","q","r","s","t","u","v","w","x","y","z">>

Digits == {"0","1","2","3","4","5","6","7","8","9"}

Range(s) == {s[i] : i \in 1..Len(s)}

AlnumChars == Range(UpperLetters) \cup Range(LowerLetters) \cup Digits

\* str.isalnum() on one character
isalnum(c) == c \in AlnumChars

\* the regex class \w: alphanumeric or underscore
IsWordChar(c) == isalnum(c) \/ c = "_"

\* str.lower() on one character
lower_char(c) ==
    IF \E i \in 1..Len(UpperLetters) : UpperLetters[i] = c
    THEN LowerLetters[CHOOSE i \in 1..Len(UpperLetters) : UpperLetters[i] = c]
    ELSE c

\* str.lower()
lower(s) == [i \in 1..Len(s) |-> lower_char(s[i])]

(***************************************************************************)
(* LibraryResolver.__init__: the keyword catalog.                          *)
(***************************************************************************)

keyword_map ==
    [ languages |->
          <<
            <<"p","y","t","h","o","n">>,
            <<"j","a","v","a","s","c","r","i","p","t">>,
            <<"t","y","p","e","s","c","r","i","p","t">>,
            <<"c","+","+">>,
            <<"j","a","v","a">>,
            <<"g","o">>,
            <<"r","u","s","t">>,
            <<"s","w","i","f","t">>,
            <<"k","o","t","l","i","n">>,
            <<"r","u","b","y">>,
            <<"p","h","p">>,
            <<"c","s","h","a","r","p">>
          >>,
      frameworks |->
          <<
            <<"r","e","a","c","t">>,
            <<"v","u","e">>,
            <<"a","n","g","u","l","a","r">>,
            <<"s","v","e","l","t","e">>,
            <<"n","e","x","t",".","j","s">>,
            <<"n","u","x","t">>,
            <<"d","j","a","n","g","o">>,
            <<"f","l","a","s","k">>,
            <<"f","a","s","t","a","p","i">>,
            <<"e","x","p","r","e","s","s">>,
            <<"s","p","r","i","n","g">>,
            <<"r","a","i","l","s">>,
            <<"l","a","r","a","v","e","l">>
          >>,
      libraries |->
          <<
            <<"n","u","m","p","y">>,
            <<"p","a","n","d","a","s">>,
            <<"s","c","i","k","i","t","-","l","e","a","r","n">>,
            <<"t","e","n","s","o","r","f","l","o","w">>,
            <<"p","y","t","o","r","c","h">>,
            <<"l","o","d","a","s","h">>,
            <<"m","o","m","e","n","t">>,
            <<"a","x","i","o","s">>,
            <<"r","e","q","u","e","s","t","s">>,
            <<"h","t","t","p","x">>,
            <<"j","i","n","j","a","2">>,
            <<"j","i","n","j","a">>
          >> ]

all_keywords ==
    keyword_map.languages \o keyword_map.frameworks \o keyword_map.libraries


(***************************************************************************)
(* extract_keywords: the pattern built for one keyword and re.search.      *)
(* A pattern is the escaped keyword (matched literally) between a start    *)
(* and an end assertion.                                                   *)
(***************************************************************************)
\* is there a \w character at position p of s (FALSE outside the string)
WordAt(s, p) == p >= 1 /\ p <= Len(s) /\ IsWordChar(s[p])

\* the zero-width assertions, at the gap before position p of s
Assertion(a, s, p) ==
    CASE a = "\\b"      -> WordAt(s, p - 1) # WordAt(s, p)
      [] a = "(?<!\\w)" -> ~WordAt(s, p - 1)
      [] a = "(?!\\w)"  -> ~WordAt(s, p)

\* pattern with \b on both edges whatever the keyword's edge characters
pattern_strict(keyword) ==
    [ start |-> "\\b", literal |-> keyword, end |-> "\\b" ]

\* lines 95-107: the pattern for one keyword
pattern(keyword) ==
    [ start   |-> IF isalnum(keyword[1]) \/ keyword[1] = "_"
                  THEN "\\b" ELSE "(?<!\\w)",
      literal |-> keyword,
      end     |-> IF isalnum(keyword[Len(keyword)]) \/ keyword[Len(keyword)] = "_"
                  THEN "\\b" ELSE "(?!\\w)" ]

\* MatchesAt without the two assertions: a plain substring search
MatchesAt_unbounded(pat, s, p) ==
    /\ p + Len(pat.literal) - 1 <= Len(s)
    /\ \A k \in 1..Len(pat.literal) : s[p + k - 1] = pat.literal[k]

\* the pattern matches s starting at position p
MatchesAt(pat, s, p) ==
    /\ p + Len(pat.literal) - 1 <= Len(s)
    /\ \A k \in 1..Len(pat.literal) : s[p + k - 1] = pat.literal[k]
    /\ Assertion(pat.start, s, p)
    /\ Assertion(pat.end, s, p + Len(pat.literal))

\* re.search(pattern, s): a match anywhere in s
re_search(pat, s) == \E p \in 1..Len(s) : MatchesAt(pat, s, p)

\* lines 92-110: the loop over the resolver's keyword list, after n keywords
\* were tried
RECURSIVE found_in(_, _, _)
found_in(keyword_list, question_lower, n) ==
    IF n = 0 THEN <<>>
    ELSE LET found   == found_in(keyword_list, question_lower, n - 1)
             keyword == keyword_list[n]
         IN  IF re_search(pattern(keyword), question_lower)
             THEN Append(found, keyword)
             ELSE found

\* the same loop over the list built by __init__
found_after(question_lower, n) == found_in(all_keywords, question_lower, n)

\* line 112: found[:3]
MAX_KEYWORDS == 3

\* Truncate that keeps everything found
Truncate_off(found) == found

\* Truncate that keeps the last three: found[-3:]
Truncate_last(found) ==
    SubSeq(found, IF Len(found) < MAX_KEYWORDS THEN 1 ELSE Len(found) - MAX_KEYWORDS + 1,
           Len(found))

Truncate(found) ==
    SubSeq(found, 1, IF Len(found) < MAX_KEYWORDS THEN Len(found) ELSE MAX_KEYWORDS)

\* lines 82-112, on a resolver whose self.all_keywords is keyword_list
extract_keywords_in(keyword_list, q) ==
    LET question_lower == lower(q)
    IN  Truncate(found_in(keyword_list, question_lower, Len(keyword_list)))

\* lines 82-112, on a resolver as __init__ leaves it
extract_keywords(q) ==
    LET question_lower == lower(q)
    IN  Truncate(found_after(question_lower, Len(all_keywords)))

(***************************************************************************)
(* Questions: concatenations of at most MaxFrags of these fragments.       *)
(***************************************************************************)
MaxFrags == 3

Fragments ==
    <<
      <<"j","a","v","a">>,
      <<"s","c","r","i","p","t">>,
      <<"j","i","n","j","a">>,
      <<"2">>,
      <<" ">>,
      <<"C","+","+">>,
      <<"N","e","x","t",".","j","s">>,
      <<"P","a","n","d","a","s"," ","R","e","a","c","t"," ","N","u","m","P","y">>,
      <<"d","a","n","t","i","c">>,
      <<"_">>
    >>

RECURSIVE Concat(_)
Concat(ss) == IF ss = <<>> THEN <<>> ELSE Head(ss) \o Concat(Tail(ss))

Questions ==
    { Concat([i \in DOMAIN fs |-> Fragments[fs[i]]]) :
        fs \in UNION { [1..n -> 1..Len(Fragments)] : n \in 0..MaxFrags } }

(***************************************************************************)
(* calculate_confidence.  A candidate is a dict: a function from the keys  *)
(* it has to their values.                                                 *)
(***************************************************************************)
\* dict.get(key, default)
get(d, key, default) == IF key \in DOMAIN d THEN d[key] ELSE default

\* the Python test `sub in s` on strings
contains(s, sub) ==
    \E p \in 0..(Len(s) - Len(sub)) :
        \A k \in 1..Len(sub) : s[p + k] = sub[k]

Min(a, b) == IF a < b THEN a ELSE b

\* score weights and caps, in units of 0.00001
NAME_WEIGHT == 50000
DESCRIPTION_WEIGHT == 30000
POPULARITY_CAP == 20000
ONE == 100000

\* popularity / 100.0, in units of 0.00001
popularity_over_100(popularity) == popularity * 1000

\* the number of places where sub occurs in s
occurrences(s, sub) ==
    Cardinality({ p \in 0..(Len(s) - Len(sub)) :
                    \A k \in 1..Len(sub) : s[p + k] = sub[k] })

\* score_after that adds the weight once per occurrence of the keyword
RECURSIVE score_after_per_occurrence(_, _, _, _)
score_after_per_occurrence(name, description, kws, n) ==
    IF n = 0 THEN 0
    ELSE score_after_per_occurrence(name, description, kws, n - 1)
         + occurrences(name, kws[n]) * NAME_WEIGHT
         + occurrences(description, kws[n]) * DESCRIPTION_WEIGHT

\* lines 130-134: the score after the first n keywords
RECURSIVE score_after(_, _, _, _)
score_after(name, description, kws, n) ==
    IF n = 0 THEN 0
    ELSE score_after(name, description, kws, n - 1)
         + (IF contains(name, kws[n]) THEN NAME_WEIGHT ELSE 0)
         + (IF contains(description, kws[n]) THEN DESCRIPTION_WEIGHT ELSE 0)

\* raw_score that adds the popularity bonus even without keywords
raw_score_always_bonus(m, kws) ==
    LET name        == lower(get(m, "name", get(m, "title", <<>>)))
        description == lower(get(m, "description", <<>>))
        popularity  == get(m, "popularity", 0)
    IN  score_after(name, description, kws, Len(kws))
        + Min(popularity_over_100(popularity), POPULARITY_CAP)

\* raw_score whose popularity bonus is not capped
raw_score_uncapped_bonus(m, kws) ==
    LET name        == lower(get(m, "name", get(m, "title", <<>>)))
        description == lower(get(m, "description", <<>>))
        popularity  == get(m, "popularity", 0)
        s           == score_after(name, description, kws, Len(kws))
    IN  IF Len(kws) > 0 THEN s + popularity_over_100(popularity) ELSE s

\* lines 124-138: the local `score` when the return statement is reached
raw_score(m, kws) ==
    LET name        == lower(get(m, "name", get(m, "title", <<>>)))
        description == lower(get(m, "description", <<>>))
        popularity  == get(m, "popularity", 0)
        s           == score_after(name, description, kws, Len(kws))
    IN  IF Len(kws) > 0
        THEN s + Min(popularity_over_100(popularity), POPULARITY_CAP)
        ELSE s

\* line 140
calculate_confidence(m, kws) == Min(raw_score(m, kws), ONE)

(***************************************************************************)
(* get_confidence_level                                                    *)
(***************************************************************************)
HIGH_THRESHOLD == 80000
MEDIUM_THRESHOLD == 50000

\* get_confidence_level with the lower edges excluded
get_confidence_level_exclusive(s) ==
    IF s > HIGH_THRESHOLD THEN "high"
    ELSE IF s > MEDIUM_THRESHOLD THEN "medium"
    ELSE "low"

get_confidence_level(s) ==
    IF s >= HIGH_THRESHOLD THEN "high"
    ELSE IF s >= MEDIUM_THRESHOLD THEN "medium"
    ELSE "low"

(***************************************************************************)
(* Candidates and keyword lists calculate_confidence is called on.  An     *)
(* optional field is <<>> when the key is absent and <<v>> when present.   *)
(***************************************************************************)
MaxKw == 2

T_react == <<"r","e","a","c","t">>
T_python == <<"p","y","t","h","o","n">>
T_javascript == <<"j","a","v","a","s","c","r","i","p","t">>

NameOpts ==
    { <<>>, <<<<"r","e","a","c","t">>>>, <<<<"s","o","m","e","-","l","i","b">>>>, <<<<"R","e","a","c","t">>>> }

TitleOpts ==
    { <<>>, <<<<"R","e","a","c","t">>>> }

DescriptionOpts ==
    { <<>>, << <<>> >>, <<<<"R","e","a","c","t"," ","R","e","a","c","t"," ","R","e","a","c","t"," ","R","e","a","c","t">>>>, <<<<"A"," ","P","y","t","h","o","n"," ","l","i","b","r","a","r","y"," ","f","o","r"," ","d","a","t","a"," ","a","n","a","l","y","s","i","s">>>>, <<<<"R","e","a","c","t"," ","J","a","v","a","S","c","r","i","p","t"," ","l","i","b","r","a","r","y">>>> }

PopularityOpts ==
    { <<>>, <<-50>>, <<-10>>, <<0>>, <<10>>, <<20>>, <<21>>, <<95>>, <<100>>, <<150>> }

MakeMatch(n, t, d, p) ==
    LET keys == (IF n # <<>> THEN {"name"} ELSE {})
                \cup (IF t # <<>> THEN {"title"} ELSE {})
                \cup (IF d # <<>> THEN {"description"} ELSE {})
                \cup (IF p # <<>> THEN {"popularity"} ELSE {})
    IN  [ k \in keys |->
            CASE k = "name"        -> n[1]
              [] k = "title"       -> t[1]
              [] k = "description" -> d[1]
              [] k = "popularity"  -> p[1] ]

Matches ==
    { MakeMatch(n, t, d, p) :
        n \in NameOpts, t \in TitleOpts, d \in DescriptionOpts, p \in PopularityOpts }

KeywordLists ==
    UNION { [1..n -> {T_react, T_python, T_javascript}] : n \in 0..MaxKw }

ScoreProbes ==
    { k * 1000 : k \in (-50)..150 }
    \cup { 49999, 50001, 79999, 80001, 99999, 100001 }

None == "None"

(***************************************************************************)
(* resolve_from_question.  The search interface answers each call with a   *)
(* list of candidates or raises; either is the environment's choice.       *)
(***************************************************************************)
MaxResults == 2

ResolveQuestions ==
    { <<>>,
      <<"H","o","w"," ","d","o"," ","I"," ","u","s","e"," ","R","e","a","c","t"," ","h","o","o","k","s","?">>,
      <<"H","o","w"," ","d","o"," ","I"," ","w","r","i","t","e"," ","a"," ","f","u","n","c","t","i","o","n","?">>,
      <<"P","y","t","h","o","n"," ","w","i","t","h"," ","F","l","a","s","k">>,
      <<"p","a","n","d","a","s",","," ","r","e","a","c","t",","," ","j","a","v","a"," ","o","r"," ","p","y","t","h","o","n","?">>,
      <<"n","u","m","p","y","d","a","n","t","i","c">> }

Candidates ==
    { [ id |-> "/facebook/react", name |-> <<"r","e","a","c","t">>,
        description |-> <<"R","e","a","c","t"," ","J","a","v","a","S","c","r","i","p","t"," ","l","i","b","r","a","r","y">>, popularity |-> 95 ],
      [ id |-> "/acme/some-lib", name |-> <<"s","o","m","e","-","l","i","b">>,
        description |-> <<"A"," ","P","y","t","h","o","n"," ","l","i","b","r","a","r","y"," ","f","o","r"," ","d","a","t","a"," ","a","n","a","l","y","s","i","s">>, popularity |-> 10 ],
      [ id |-> "/pallets/flask", title |-> <<"F","l","a","s","k">>, popularity |-> -30 ] }

\* the exception classes of the program and their base classes
exception_base ==
    [ Exception      |-> "BaseException",
      ValueError     |-> "Exception",
      ConfigError    |-> "Exception",
      APIError       |-> "Exception",
      AuthError      |-> "APIError",
      RateLimitError |-> "APIError",
      NotFoundError  |-> "APIError" ]

\* isinstance(e, cls) for an exception e of class error
RECURSIVE isinstance(_, _)
isinstance(error, cls) ==
    \/ error = cls
    \/ /\ error \in DOMAIN exception_base
       /\ isinstance(exception_base[error], cls)

\* what search_library may raise: the typed errors of the client, and any
\* other exception of a search interface
SearchErrors ==
    {"AuthError", "RateLimitError", "NotFoundError", "APIError", "Exception"}

\* a handler that catches the client's errors only
caught_api_errors_only(error) == isinstance(error, "APIError")

\* line 179: except Exception
caught(error) == isinstance(error, "Exception")

\* what search_library may return
SearchResults ==
    UNION { [1..n -> Candidates] : n \in 0..MaxResults }

\* line 177: result["confidence"] = ...
with_confidence(result, kws) ==
    [ k \in DOMAIN result \cup {"confidence"} |->
        IF k = "confidence" THEN calculate_confidence(result, kws) ELSE result[k] ]

\* lines 176-178: every result of one search is scored and pooled
pooled(pool, results, kws) ==
    pool \o [ j \in 1..Len(results) |-> with_confidence(results[j], kws) ]

\* a maximum that keeps the last of the largest
RECURSIVE max_index_last(_, _)
max_index_last(pool, n) ==
    IF n = 1 THEN 1
    ELSE LET best == max_index_last(pool, n - 1)
         IN  IF get(pool[n], "confidence", 0) >= get(pool[best], "confidence", 0)
             THEN n ELSE best

\* line 185: max(all_results, key=...) keeps the first of the largest;
\* the position of the best among the first n
RECURSIVE max_index(_, _)
max_index(pool, n) ==
    IF n = 1 THEN 1
    ELSE LET best == max_index(pool, n - 1)
         IN  IF get(pool[n], "confidence", 0) > get(pool[best], "confidence", 0)
             THEN n ELSE best

\* selection that gives up on a best match below the medium threshold
selection_drops_low(pool) ==
    IF pool = <<>> THEN <<None, 0>>
    ELSE LET best_match == pool[max_index(pool, Len(pool))]
         IN  IF get(best_match, "confidence", 0) < MEDIUM_THRESHOLD
             THEN <<None, 0>>
             ELSE <<get(best_match, "id", None), get(best_match, "confidence", 0)>>

\* selection that reports 0.0 for a best match below the medium threshold
selection_hides_low_score(pool) ==
    IF pool = <<>> THEN <<None, 0>>
    ELSE LET best_match == pool[max_index(pool, Len(pool))]
         IN  IF get(best_match, "confidence", 0) < MEDIUM_THRESHOLD
             THEN <<get(best_match, "id", None), 0>>
             ELSE <<get(best_match, "id", None), get(best_match, "confidence", 0)>>

\* selection that takes the first candidate of the pool
selection_first_candidate(pool) ==
    IF pool = <<>> THEN <<None, 0>>
    ELSE <<get(pool[1], "id", None), get(pool[1], "confidence", 0)>>

\* lines 182-189
selection(pool) ==
    IF pool = <<>> THEN <<None, 0>>
    ELSE LET best_match == pool[max_index(pool, Len(pool))]
         IN  <<get(best_match, "id", None), get(best_match, "confidence", 0)>>

\* main.py line 33: the default of --tokens
DEFAULT_TOKENS == 5000

\* no configuration file
NoFile == [exists |-> FALSE, mode |-> 0, invalid |-> FALSE, config |-> <<>>]

\* no ConfigManager call yet
NoOp == [name |-> "", arg |-> <<>>, result |-> <<>>]

\* the caller, the configuration and the agent at rest
IdleCaller ==
    /\ library = None
    /\ version = None
    /\ skip_detect = FALSE
    /\ debug = FALSE
    /\ printed = <<>>
    /\ outcome = <<>>
    /\ request = <<>>
    /\ exit_code = None
    /\ resolve_calls = <<>>
    /\ cli_tokens = DEFAULT_TOKENS
    /\ env_api_key = None
    /\ main_api_key = None
    /\ config_log = <<>>

IdleConfig ==
    /\ dir_writable = TRUE
    /\ file = NoFile
    /\ op = NoOp
    /\ last_set = <<>>

IdleAgent ==
    /\ content_blocks = <<>>
    /\ final_text = <<>>

\* no Context7Client call yet
IdleClient == client_op = NoOp

\* the resolver as __init__ leaves it (lines 76-80)
IdleSession ==
    /\ catalog = all_keywords
    /\ ref = <<>>

\* the variables an extraction leaves alone
Idle ==
    /\ IdleCaller
    /\ IdleClient
    /\ IdleSession
    /\ IdleConfig
    /\ IdleAgent
    /\ match = <<>>
    /\ score = 0
    /\ confidence = 0
    /\ level = ""
    /\ idx = 0
    /\ all_results = <<>>
    /\ calls = <<>>
    /\ responses = <<>>
    /\ ret = <<>>

(***************************************************************************)
(* SpecExtract: extract_keywords is called on any question.                *)
(***************************************************************************)
InitExtract ==
    /\ pc = "extract"
    /\ question \in Questions
    /\ keywords = <<>>
    /\ Idle

ExtractKeywords ==
    /\ pc = "extract"
    /\ keywords' = extract_keywords_in(catalog, question)
    /\ pc' = "extracted"
    /\ UNCHANGED <<question, match, score, confidence, level,
                   idx, all_results, calls, responses, ret>>
    /\ UNCHANGED <<callerVars, configVars, agentVars, clientVars, sessionVars>>

NextExtract == ExtractKeywords

SpecExtract == InitExtract /\ [][NextExtract]_vars

(***************************************************************************)
(* SpecScore: calculate_confidence is called on any candidate and keyword  *)
(* list, and get_confidence_level on its result or on any score.           *)
(***************************************************************************)
InitScore ==
    /\ IdleCaller
    /\ IdleClient
    /\ IdleSession
    /\ IdleConfig
    /\ IdleAgent
    /\ question = <<>>
    /\ idx = 0
    /\ all_results = <<>>
    /\ calls = <<>>
    /\ responses = <<>>
    /\ ret = <<>>
    /\ score = 0
    /\ level = ""
    /\ \/ /\ pc = "score"
          /\ match \in Matches
          /\ keywords \in KeywordLists
          /\ confidence = 0
       \/ /\ pc = "label"
          /\ match = <<>>
          /\ keywords = <<>>
          /\ confidence \in ScoreProbes

CalculateConfidence ==
    /\ pc = "score"
    /\ score' = raw_score(match, keywords)
    /\ confidence' = calculate_confidence(match, keywords)
    /\ pc' = "scored"
    /\ UNCHANGED <<question, keywords, match, level,
                   idx, all_results, calls, responses, ret>>
    /\ UNCHANGED <<callerVars, configVars, agentVars, clientVars, sessionVars>>

GetConfidenceLevel ==
    /\ pc \in {"scored", "label"}
    /\ level' = get_confidence_level(confidence)
    /\ pc' = "labelled"
    /\ UNCHANGED <<question, keywords, match, score, confidence,
                   idx, all_results, calls, responses, ret>>
    /\ UNCHANGED <<callerVars, configVars, agentVars, clientVars, sessionVars>>

NextScore == CalculateConfidence \/ GetConfidenceLevel

SpecScore == InitScore /\ [][NextScore]_vars

(***************************************************************************)
(* Spec: one call of resolve_from_question.                                *)
(***************************************************************************)
Init ==
    /\ pc = "start"
    /\ question \in ResolveQuestions
    /\ keywords = <<>>
    /\ Idle

\* ResolveStart that takes the keywords it finds out of the resolver's list
ResolveStart_consumes_catalog ==
    /\ pc = "start"
    /\ keywords' = extract_keywords_in(catalog, question)
    /\ catalog' = SelectSeq(catalog, LAMBDA keyword : keyword \notin Range(keywords'))
    /\ IF keywords' = <<>>
       THEN /\ ret' = <<None, 0>>
            /\ pc' = "done"
            /\ idx' = idx
            /\ all_results' = all_results
       ELSE /\ ret' = ret
            /\ pc' = "search"
            /\ idx' = 1
            /\ all_results' = <<>>
    /\ UNCHANGED <<question, match, score, confidence, level, calls, responses>>
    /\ UNCHANGED ref
    /\ UNCHANGED <<callerVars, configVars, agentVars, clientVars>>

\* lines 167-172
ResolveStart ==
    /\ pc = "start"
    /\ keywords' = extract_keywords_in(catalog, question)
    /\ IF keywords' = <<>>
       THEN /\ ret' = <<None, 0>>
            /\ pc' = "done"
            /\ idx' = idx
            /\ all_results' = all_results
       ELSE /\ ret' = ret
            /\ pc' = "search"
            /\ idx' = 1
            /\ all_results' = <<>>
    /\ UNCHANGED <<question, match, score, confidence, level, calls, responses>>
    /\ UNCHANGED <<callerVars, configVars, agentVars, clientVars, sessionVars>>

\* line 174: search_library(keyword, question) is called for keywords[idx];
\* the loop waits for its answer
SearchCall ==
    /\ pc = "search"
    /\ idx <= Len(keywords)
    /\ calls' = Append(calls, <<keywords[idx], question>>)
    /\ pc' = "waiting"
    /\ UNCHANGED <<question, keywords, match, score, confidence, level, idx,
                   all_results, responses, ret>>
    /\ UNCHANGED <<callerVars, configVars, agentVars, clientVars, sessionVars>>

\* SearchReturns that scores a candidate against the searched keyword only
SearchReturns_scores_searched_keyword ==
    /\ pc = "waiting"
    /\ \E results \in SearchResults :
          /\ all_results' = pooled(all_results, results, <<keywords[idx]>>)
          /\ responses' = Append(responses, [raised |-> FALSE, error |-> None,
                                             results |-> results])
    /\ idx' = idx + 1
    /\ pc' = "search"
    /\ UNCHANGED <<question, keywords, match, score, confidence, level,
                   calls, ret>>
    /\ UNCHANGED <<callerVars, configVars, agentVars, clientVars, sessionVars>>

\* lines 174-178: the search for keywords[idx] returns
SearchReturns ==
    /\ pc = "waiting"
    /\ \E results \in SearchResults :
          /\ all_results' = pooled(all_results, results, keywords)
          /\ responses' = Append(responses, [raised |-> FALSE, error |-> None,
                                             results |-> results])
    /\ idx' = idx + 1
    /\ pc' = "search"
    /\ UNCHANGED <<question, keywords, match, score, confidence, level,
                   calls, ret>>
    /\ UNCHANGED <<callerVars, configVars, agentVars, clientVars, sessionVars>>

\* SearchRaises that lets the error end the resolution
SearchRaises_aborts ==
    /\ pc = "waiting"
    /\ \E error \in SearchErrors :
          responses' = Append(responses, [raised |-> TRUE, error |-> error,
                                          results |-> <<>>])
    /\ ret' = <<None, 0>>
    /\ pc' = "done"
    /\ UNCHANGED <<question, keywords, match, score, confidence, level,
                   idx, all_results, calls>>
    /\ UNCHANGED <<callerVars, configVars, agentVars, clientVars, sessionVars>>

\* SearchRaises that searches the same keyword again after a caught error
SearchRaises_retries ==
    /\ pc = "waiting"
    /\ \E error \in SearchErrors :
          /\ responses' = Append(responses, [raised |-> TRUE, error |-> error,
                                             results |-> <<>>])
          /\ pc' = IF caught(error) THEN "search" ELSE "raised"
    /\ UNCHANGED <<question, keywords, match, score, confidence, level,
                   idx, all_results, calls, ret>>
    /\ UNCHANGED <<callerVars, configVars, agentVars, clientVars, sessionVars>>

\* lines 174-180: the search for keywords[idx] raises; an exception the
\* handler does not catch leaves resolve_from_question (pc = "raised")
SearchRaises ==
    /\ pc = "waiting"
    /\ \E error \in SearchErrors :
          /\ responses' = Append(responses, [raised |-> TRUE, error |-> error,
                                             results |-> <<>>])
          /\ IF caught(error)
             THEN /\ idx' = idx + 1
                  /\ pc' = "search"
             ELSE /\ idx' = idx
                  /\ pc' = "raised"
    /\ UNCHANGED <<question, keywords, match, score, confidence, level,
                   all_results, calls, ret>>
    /\ UNCHANGED <<callerVars, configVars, agentVars, clientVars, sessionVars>>

\* lines 182-189
ResolveFinish ==
    /\ pc = "search"
    /\ idx > Len(keywords)
    /\ ret' = selection(all_results)
    /\ pc' = "done"
    /\ UNCHANGED <<question, keywords, match, score, confidence, level,
                   idx, all_results, calls, responses>>
    /\ UNCHANGED <<callerVars, configVars, agentVars, clientVars, sessionVars>>

Next ==
    ResolveStart \/ SearchCall \/ SearchReturns \/ SearchRaises \/ ResolveFinish

Spec == Init /\ [][Next]_vars

(***************************************************************************)
(* SpecSession: any sequence of resolve_from_question, extract_keywords    *)
(* and calculate_confidence calls on one resolver.  Between calls the      *)
(* resolver holds its keyword list and nothing else: the locals of a call  *)
(* end with it.  ref keeps one finished resolve_from_question call (its    *)
(* question, the answers of the search interface, the returned pair) and   *)
(* whether any call followed it.                                           *)
(***************************************************************************)
SessionQuestions ==
    { <<"H","o","w"," ","d","o"," ","I"," ","u","s","e"," ","R","e","a","c","t"," ","h","o","o","k","s","?">>,
      <<"F","l","a","s","k"," ","r","o","u","t","e","s">>,
      <<"H","o","w"," ","d","o"," ","I"," ","w","r","i","t","e"," ","a"," ","f","u","n","c","t","i","o","n","?">> }

\* ref after one more call on the resolver
followed(r) == IF r = <<>> THEN r ELSE [ r EXCEPT !.between = TRUE ]

InitSession ==
    /\ pc = "idle"
    /\ question = <<>>
    /\ keywords = <<>>
    /\ Idle

\* resolve_from_question is called
SessionResolve ==
    /\ pc = "idle"
    /\ question' \in SessionQuestions
    /\ keywords' = <<>>
    /\ pc' = "start"
    /\ UNCHANGED <<match, score, confidence, level, idx, all_results,
                   calls, responses, ret>>
    /\ UNCHANGED <<callerVars, configVars, agentVars, clientVars, sessionVars>>

\* resolve_from_question has returned: its locals are gone; the call may be
\* the one kept in ref
SessionReturn ==
    /\ pc = "done"
    /\ pc' = "idle"
    /\ \/ ref' = [ question |-> question, responses |-> responses, ret |-> ret,
                   between |-> FALSE ]
       \/ ref' = followed(ref)
    /\ question' = <<>>
    /\ keywords' = <<>>
    /\ idx' = 0
    /\ all_results' = <<>>
    /\ calls' = <<>>
    /\ responses' = <<>>
    /\ ret' = <<>>
    /\ UNCHANGED <<match, score, confidence, level, catalog>>
    /\ UNCHANGED <<callerVars, configVars, agentVars, clientVars>>

\* extract_keywords is called on its own; keywords is what it returns
SessionExtract ==
    /\ pc = "idle"
    /\ \E q \in SessionQuestions : keywords' = extract_keywords_in(catalog, q)
    /\ ref' = followed(ref)
    /\ UNCHANGED <<pc, catalog>>
    /\ UNCHANGED <<question, match, score, confidence, level, idx, all_results,
                   calls, responses, ret>>
    /\ UNCHANGED <<callerVars, configVars, agentVars, clientVars>>

\* calculate_confidence is called on its own, with keywords extracted before;
\* confidence is what it returns
SessionScore ==
    /\ pc = "idle"
    /\ \E m \in Candidates : confidence' = calculate_confidence(m, keywords)
    /\ ref' = followed(ref)
    /\ UNCHANGED <<pc, catalog>>
    /\ UNCHANGED <<question, keywords, match, score, level, idx, all_results,
                   calls, responses, ret>>
    /\ UNCHANGED <<callerVars, configVars, agentVars, clientVars>>

NextSession ==
    \/ SessionResolve \/ ResolveStart \/ SearchCall \/ SearchReturns
    \/ SearchRaises \/ ResolveFinish \/ SessionReturn
    \/ SessionExtract \/ SessionScore

SpecSession == InitSession /\ [][NextSession]_vars

(***************************************************************************)
(* main from the library resolution on (main.py lines 110-139):            *)
(* _resolve_library, then the documentation request.  The resolver is the  *)
(* collaborator here: its call returns any (identifier, confidence) pair.  *)
(* SpecMain, further down, puts main's startup in front of these actions.  *)
(***************************************************************************)
\* the thresholds of the caller's policy
POLICY_HIGH == 80000

POLICY_MEDIUM == 50000

\* Python truthiness of an optional string
truthy(x) == x # None /\ x # ""

\* f"{confidence:.2f}": the score in hundredths, rounded to the nearest (the
\* scores used here are never half-way between two hundredths)
format_2f(c) == (c + 500) \div 1000

\* the value _resolve_library returns, or the error it raises
Returns(value, out) ==
    [ raised |-> FALSE, value |-> value, error |-> None, printed |-> out ]

Raises(error, message, out) ==
    [ raised |-> TRUE, value |-> message, error |-> error, printed |-> out ]

\* _resolve_library that uses a low-confidence match with a warning
resolve_library_never_refuses(lib, ver, skip, dbg, result) ==
    IF truthy(lib)
    THEN LET library_id == IF truthy(ver) THEN lib \o "/" \o ver ELSE lib
         IN  Returns(library_id, << <<"info", "Using library", library_id>> >>)
    ELSE IF skip
    THEN Returns(None, IF dbg THEN << <<"plain", "[DEBUG] Skipping library detection per flag">> >>
                       ELSE <<>>)
    ELSE LET library_id == result[1]
             conf       == result[2]
         IN  IF ~truthy(library_id)
             THEN Raises("ValueError", "Library detection failed",
                         << <<"error", "Could not detect library">>,
                            <<"info", "Tip">> >>)
             ELSE IF conf >= POLICY_HIGH
             THEN Returns(library_id, << <<"info", "Using library", library_id>> >>)
             ELSE Returns(library_id,
                          << <<"warning", "Using library", library_id, format_2f(conf)>> >>)

\* _resolve_library that honours the skip flag only after detection
resolve_library_detects_first(lib, ver, skip, dbg, result) ==
    IF truthy(lib)
    THEN LET library_id == IF truthy(ver) THEN lib \o "/" \o ver ELSE lib
         IN  Returns(library_id, << <<"info", "Using library", library_id>> >>)
    ELSE LET library_id == result[1]
             conf       == result[2]
         IN  IF ~truthy(library_id)
             THEN IF ~skip
                  THEN Raises("ValueError", "Library detection failed",
                              << <<"error", "Could not detect library">>,
                                 <<"info", "Tip">> >>)
                  ELSE Returns(None, <<>>)
             ELSE IF conf >= POLICY_HIGH
             THEN Returns(library_id, << <<"info", "Using library", library_id>> >>)
             ELSE IF conf >= POLICY_MEDIUM
             THEN Returns(library_id,
                          << <<"warning", "Using library", library_id, format_2f(conf)>> >>)
             ELSE IF ~skip
                  THEN Raises("ValueError", "Low confidence library match",
                              << <<"error", "Low confidence library match", library_id, format_2f(conf)>>,
                                 <<"info", "Tip">> >>)
                  ELSE Returns(None, <<>>)

\* main.py lines 234-306; result is what resolver.resolve_from_question
\* returns when it is called (line 274)
resolve_library(lib, ver, skip, dbg, result) ==
    IF truthy(lib)
    THEN LET library_id == IF truthy(ver) THEN lib \o "/" \o ver ELSE lib
         IN  Returns(library_id, << <<"info", "Using library", library_id>> >>)
    ELSE IF skip
    THEN Returns(None, IF dbg THEN << <<"plain", "[DEBUG] Skipping library detection per flag">> >>
                       ELSE <<>>)
    ELSE LET library_id == result[1]
             conf       == result[2]
         IN  IF ~truthy(library_id)
             THEN IF ~skip
                  THEN Raises("ValueError", "Library detection failed",
                              << <<"error", "Could not detect library">>,
                                 <<"info", "Tip">> >>)
                  ELSE Returns(None, <<>>)
             ELSE IF conf >= POLICY_HIGH
             THEN Returns(library_id, << <<"info", "Using library", library_id>> >>)
             ELSE IF conf >= POLICY_MEDIUM
             THEN Returns(library_id,
                          << <<"warning", "Using library", library_id, format_2f(conf)>> >>)
             ELSE IF ~skip
                  THEN Raises("ValueError", "Low confidence library match",
                              << <<"error", "Low confidence library match", library_id, format_2f(conf)>>,
                                 <<"info", "Tip">> >>)
                  ELSE Returns(None, <<>>)

\* calls_resolver that looks at the skip flag only
calls_resolver_unless_skipped(lib, skip) == ~skip

\* line 274 is reached: no explicit library and no skip flag
calls_resolver(lib, skip) == ~truthy(lib) /\ ~skip

\* api_client.py lines 169-171: the parameters of the documentation request
context_params(library_id, query, tokens) ==
    IF truthy(library_id)
    THEN [ query |-> query, tokens |-> tokens, libraryId |-> library_id ]
    ELSE [ query |-> query, tokens |-> tokens ]

(***************************************************************************)
(* Context7Client (api_client.py).  What becomes of an HTTP request is the *)
(* environment's choice: a response with a JSON body or with a text body,  *)
(* an HTTPError for a 4xx or 5xx status (raise_for_status), an HTTPError   *)
(* that carries no response, or another RequestException (no connection,   *)
(* timeout).                                                               *)
(***************************************************************************)
ErrorStatuses == { 400, 401, 403, 404, 429, 500, 503 }

\* the Retry-After header of a 429 response; "unknown" when it is absent
RetryAfterOpts == { "unknown", "30" }

JsonBodies ==
    { <<>>,
      [ results |-> <<>> ],
      [ results |-> << [ id |-> "/facebook/react" ] >> ],
      [ context |-> "docs", examples |-> <<>> ] }

HttpOutcomes ==
    { [ kind |-> "json", status |-> 200, retry_after |-> "unknown", body |-> b ] :
        b \in JsonBodies }
    \cup { [ kind |-> "text", status |-> 200, retry_after |-> "unknown", body |-> "docs" ] }
    \cup { [ kind |-> "http_error", status |-> st, retry_after |-> "unknown", body |-> "" ] :
             st \in ErrorStatuses }
    \cup { [ kind |-> "http_error", status |-> 429, retry_after |-> ra, body |-> "" ] :
             ra \in RetryAfterOpts }
    \cup { [ kind |-> k, status |-> 0, retry_after |-> "unknown", body |-> "" ] :
             k \in { "http_error_no_response", "transport" } }

\* what a method returns, or the error it raises with its message
Result(value) == [ raised |-> FALSE, value |-> value, error |-> None ]

Failure(error, message) == [ raised |-> TRUE, value |-> message, error |-> error ]

\* api_client.py lines 46-105
make_request(http) ==
    IF http.kind = "json" THEN Result([ type |-> "dict", body |-> http.body ])
    ELSE IF http.kind = "text" THEN Result([ type |-> "str", body |-> http.body ])
    ELSE IF http.kind = "http_error"
    THEN IF http.status \in { 401, 403 }
         THEN Failure("AuthError",
                      "Invalid API key. Get a key at https://context7.com/dashboard")
         ELSE IF http.status = 404
         THEN Failure("NotFoundError",
                      "Library not found. Check the --library flag or try a different query.")
         ELSE IF http.status = 429
         THEN Failure("RateLimitError",
                      "Rate limit exceeded. Retry after " \o http.retry_after \o " seconds.")
         ELSE IF http.status >= 500
         THEN Failure("APIError",
                      "API server error (" \o ToString(http.status) \o "). Please try again later.")
         ELSE Failure("APIError", "HTTP error " \o ToString(http.status) \o ": {e}")
    ELSE IF http.kind = "http_error_no_response"
    THEN Failure("APIError", "HTTP error unknown: {e}")
    ELSE Failure("APIError", "Network error: {e}")

\* validate_api_key that takes only a successful request as proof of the key
validate_api_key_strict(http) ==
    Result(~make_request(http).raised)

\* api_client.py lines 107-121
validate_api_key(http) ==
    LET response == make_request(http)
    IN  IF ~response.raised THEN Result(TRUE)
        ELSE IF isinstance(response.error, "AuthError") THEN Result(FALSE)
        ELSE IF isinstance(response.error, "APIError") THEN Result(TRUE)
        ELSE response

\* api_client.py lines 123-144
search_library(library_name, query, http) ==
    LET response == make_request(http)
    IN  [ sent   |-> TRUE,
          params |-> [ libraryName |-> library_name, query |-> query ],
          result |-> IF response.raised THEN response
                     ELSE IF response.value.type = "str"
                     THEN Failure("APIError", "Unexpected text response from search API")
                     ELSE Result(get(response.value.body, "results", <<>>)) ]

\* api_client.py lines 146-178
get_context(library_id, query, tokens, http) ==
    IF ~(1000 <= tokens /\ tokens <= 50000)
    THEN [ sent   |-> FALSE,
           params |-> <<>>,
           result |-> Failure("ValueError", "Tokens must be between 1000 and 50000") ]
    ELSE LET response == make_request(http)
         IN  [ sent   |-> TRUE,
               params |-> context_params(library_id, query, tokens),
               result |-> IF response.raised THEN response
                          ELSE IF response.value.type = "str"
                          THEN Result([ context |-> response.value.body, examples |-> <<>> ])
                          ELSE Result(response.value.body) ]

(***************************************************************************)
(* main (main.py), called with a question (the --init flow is interactive  *)
(* and not part of this model).  The texts are as the terminal shows them: *)
(* the [bold] markup of the source is rendering, not text.                 *)
(***************************************************************************)
\* main.py lines 121-139: the handlers in order; the text main prints for an
\* error of the given class whose str() is message
main_handler(error, message) ==
    IF isinstance(error, "ConfigError") \/ isinstance(error, "APIError")
       \/ isinstance(error, "ValueError")
    THEN message
    ELSE IF isinstance(error, "AuthError")
    THEN "Invalid API key. Run coderef --init to update."
    ELSE IF isinstance(error, "RateLimitError")
    THEN "Rate limit exceeded. Please wait before retrying."
    ELSE IF isinstance(error, "NotFoundError")
    THEN "Library not found. Check the --library flag."
    ELSE "An unexpected error occurred: " \o message

\* what the documentation request may raise (api_client.py lines 77-105)
ContextErrors ==
    { make_request(http).error : http \in { h \in HttpOutcomes : make_request(h).raised } }

\* the questions, libraries, versions and token limits given on the command
\* line; an empty question is a question not given
MainQuestions ==
    { <<"H","o","w"," ","d","o"," ","I"," ","u","s","e"," ","R","e","a","c","t"," ","h","o","o","k","s","?">>,
      <<"H","o","w"," ","d","o"," ","I"," ","w","r","i","t","e"," ","a"," ","f","u","n","c","t","i","o","n","?">> }

LibraryOpts == { None, "", "/vercel/next.js" }

VersionOpts == { None, "", "v15.0.0" }

TokenOpts == { 0, 999, 1000, 5000, 50000, 50001 }

\* what resolve_from_question may return to the caller
ResolverResults ==
    { <<None, 0>> } \cup { <<"/facebook/react", c>> : c \in ScoreProbes }

\* main.py lines 110-112 and 121-123: _resolve_library, and the exit when it
\* raises
ResolveLibrary ==
    /\ pc = "resolve_library"
    /\ \E result \in ResolverResults :
          LET r == resolve_library(library, version, skip_detect, debug, result)
          IN  /\ IF calls_resolver(library, skip_detect)
                 THEN /\ resolve_calls' = Append(resolve_calls, question)
                      /\ ret' = result
                 ELSE /\ resolve_calls' = resolve_calls
                      /\ ret' = ret
              /\ outcome' = [ raised |-> r.raised, value |-> r.value, error |-> r.error ]
              /\ IF r.raised
                 THEN /\ printed' = printed \o r.printed
                                      \o << <<"error", main_handler(r.error, r.value), r.error>> >>
                      /\ exit_code' = 1
                      /\ pc' = "exit"
                 ELSE /\ printed' = printed \o r.printed
                      /\ exit_code' = exit_code
                      /\ pc' = "get_context"
    /\ UNCHANGED <<question, keywords, match, score, confidence, level,
                   idx, all_results, calls, responses>>
    /\ UNCHANGED <<library, version, skip_detect, debug, request,
                   cli_tokens, env_api_key, main_api_key, config_log>>
    /\ UNCHANGED <<configVars, agentVars, clientVars, sessionVars>>

\* main.py lines 118-119: get_context returns and the response is printed
GetContextReturns ==
    /\ pc = "get_context"
    /\ \E http \in HttpOutcomes :
          \E r \in { get_context(outcome.value, question, cli_tokens, http) } :
              /\ ~r.result.raised
              /\ request' = r.params
    /\ printed' = Append(printed, <<"response", IF truthy(outcome.value)
                                                 THEN outcome.value ELSE "Auto-detected">>)
    /\ exit_code' = 0
    /\ pc' = "done"
    /\ UNCHANGED <<library, version, skip_detect, debug, outcome, resolve_calls,
                   cli_tokens, env_api_key, main_api_key, config_log>>
    /\ UNCHANGED <<resolverVars, configVars, agentVars, clientVars, sessionVars>>

\* main.py lines 118 and 121-139: get_context raises
GetContextRaises ==
    /\ pc = "get_context"
    /\ \E http \in HttpOutcomes :
          \E r \in { get_context(outcome.value, question, cli_tokens, http) } :
              /\ r.result.raised
              /\ request' = r.params
              /\ printed' = Append(printed,
                                   <<"error", main_handler(r.result.error, r.result.value),
                                     r.result.error>>)
    /\ exit_code' = 1
    /\ pc' = "exit"
    /\ UNCHANGED <<library, version, skip_detect, debug, outcome, resolve_calls,
                   cli_tokens, env_api_key, main_api_key, config_log>>
    /\ UNCHANGED <<resolverVars, configVars, agentVars, clientVars, sessionVars>>

(***************************************************************************)
(* The configuration file (config.py) and the key format (utils.py).  The  *)
(* file is what the program can observe of it: whether it exists, its      *)
(* permission mode, and its content as toml.load reads it (a table of      *)
(* tables, or invalid).  The program runs as the owner of the file.        *)
(***************************************************************************)
\* the two accepted prefixes
PFX_UNDERSCORE == <<"c","t","x","7","s","k","_">>

PFX_HYPHEN == <<"c","t","x","7","s","k","-">>

\* str.startswith
startswith(s, prefix) ==
    /\ Len(s) >= Len(prefix)
    /\ \A i \in 1..Len(prefix) : s[i] = prefix[i]

\* the format check with a minimum length of 10
validate_api_key_format_min_ten(api_key) ==
    /\ \/ startswith(api_key, PFX_UNDERSCORE)
       \/ startswith(api_key, PFX_HYPHEN)
    /\ Len(api_key) >= 10

\* utils.py lines 15-17
validate_api_key_format(api_key) ==
    /\ \/ startswith(api_key, PFX_UNDERSCORE)
       \/ startswith(api_key, PFX_HYPHEN)
    /\ Len(api_key) > 10

\* 0o600
MODE_0600 == 384

\* the permission modes a file may have been left with: 0600, 0644, 0400, 0200
Modes == { 384, 420, 256, 128 }

owner_can_read(mode) == (mode \div 256) % 2 = 1

owner_can_write(mode) == (mode \div 128) % 2 = 1

\* the result of a ConfigManager call
Ok(value) == [ raised |-> FALSE, value |-> value, error |-> None ]

Err(error) == [ raised |-> TRUE, value |-> None, error |-> error ]

\* config.py lines 29-35
config_exists(f) == f.exists

\* toml.load: fails on an unreadable file and on invalid content
toml_load(f) ==
    IF ~owner_can_read(f.mode) \/ f.invalid THEN Err("Exception") ELSE Ok(f.config)

\* line 85: st_size > 0
size_positive(f) == f.invalid \/ DOMAIN f.config # {}

\* create_config that leaves the mode of the file as it finds or creates it
create_config_no_chmod(f, dirw) ==
    IF ~f.exists /\ ~dirw
    THEN [ file |-> f, result |-> Err("ConfigError") ]
    ELSE [ file |-> [ exists |-> TRUE, mode |-> IF f.exists THEN f.mode ELSE 420,
                      invalid |-> f.invalid, config |-> f.config ],
           result |-> Ok(None) ]

\* config.py lines 37-48: mkdir and touch fail when the file is missing and
\* cannot be created; an existing file keeps its content
create_config(f, dirw) ==
    IF ~f.exists /\ ~dirw
    THEN [ file |-> f, result |-> Err("ConfigError") ]
    ELSE [ file |-> [ exists |-> TRUE, mode |-> MODE_0600,
                      invalid |-> f.invalid, config |-> f.config ],
           result |-> Ok(None) ]

\* config.py lines 50-66
get_api_key(f) ==
    IF ~config_exists(f) THEN Ok(None)
    ELSE LET loaded == toml_load(f)
         IN  IF loaded.raised THEN Err("ConfigError")
             ELSE Ok(get(get(loaded.value, "context7", <<>>), "api_key", None))

\* lines 90-93: config["context7"]["api_key"] = api_key
with_api_key(config, api_key) ==
    LET table == get(config, "context7", <<>>)
    IN  [ sec \in DOMAIN config \cup {"context7"} |->
            IF sec = "context7"
            THEN [ n \in DOMAIN table \cup {"api_key"} |->
                     IF n = "api_key" THEN api_key ELSE table[n] ]
            ELSE config[sec] ]

\* lines 84-100, on an existing file
write_api_key(f, api_key) ==
    LET loaded == IF size_positive(f) THEN toml_load(f) ELSE Ok(<<>>)
    IN  IF loaded.raised \/ ~owner_can_write(f.mode)
        THEN [ file |-> f, result |-> Err("ConfigError") ]
        ELSE [ file |-> [ exists |-> TRUE, mode |-> MODE_0600, invalid |-> FALSE,
                          config |-> with_api_key(loaded.value, api_key) ],
               result |-> Ok(None) ]

\* set_api_key that creates the file before it checks the key
set_api_key_creates_first(f, dirw, api_key) ==
    LET created == IF ~config_exists(f) THEN create_config(f, dirw)
                   ELSE [ file |-> f, result |-> Ok(None) ]
    IN  IF created.result.raised THEN created
        ELSE IF ~validate_api_key_format(api_key)
        THEN [ file |-> created.file, result |-> Err("ValueError") ]
        ELSE write_api_key(created.file, api_key)

\* set_api_key that keeps a key already stored
set_api_key_keeps_first(f, dirw, api_key) ==
    IF ~validate_api_key_format(api_key)
    THEN [ file |-> f, result |-> Err("ValueError") ]
    ELSE LET created == IF ~config_exists(f) THEN create_config(f, dirw)
                        ELSE [ file |-> f, result |-> Ok(None) ]
         IN  IF created.result.raised THEN created
             ELSE IF /\ ~created.file.invalid
                     /\ "api_key" \in DOMAIN get(created.file.config, "context7", <<>>)
             THEN [ file |-> [ created.file EXCEPT !.mode = MODE_0600 ], result |-> Ok(None) ]
             ELSE write_api_key(created.file, api_key)

\* config.py lines 68-100
set_api_key(f, dirw, api_key) ==
    IF ~validate_api_key_format(api_key)
    THEN [ file |-> f, result |-> Err("ValueError") ]
    ELSE LET created == IF ~config_exists(f) THEN create_config(f, dirw)
                        ELSE [ file |-> f, result |-> Ok(None) ]
         IN  IF created.result.raised THEN created
             ELSE write_api_key(created.file, api_key)

\* keys given to set_api_key: two of valid format, three of invalid format
K_ONE == <<"c","t","x","7","s","k","_","a","b","c","d">>

K_TWO == <<"c","t","x","7","s","k","-","w","x","y","z","-","1","2","3","4">>

ConfigKeys ==
    { K_ONE, K_TWO, <<>>, <<"i","n","v","a","l","i","d","_","k","e","y">>, <<"c","t","x","7","s","k","_","a","b">> }

\* the contents a configuration file may have before the first call
K_OLD == <<"c","t","x","7","s","k","_","o","l","d","_","k","e","y">>

InitialConfigs ==
    { <<>>,
      [ context7 |-> [ api_key |-> K_OLD ] ],
      [ context7 |-> [ base_url |-> "https://context7.com" ] ],
      [ ui |-> [ theme |-> "dark" ] ] }

InitialFiles ==
    { NoFile }
    \cup { [ exists |-> TRUE, mode |-> m, invalid |-> FALSE, config |-> c ] :
             m \in Modes, c \in InitialConfigs }
    \cup { [ exists |-> TRUE, mode |-> m, invalid |-> TRUE, config |-> <<>> ] :
             m \in Modes }

\* the resolver at rest
IdleResolver ==
    /\ question = <<>>
    /\ keywords = <<>>
    /\ match = <<>>
    /\ score = 0
    /\ confidence = 0
    /\ level = ""
    /\ idx = 0
    /\ all_results = <<>>
    /\ calls = <<>>
    /\ responses = <<>>
    /\ ret = <<>>

(***************************************************************************)
(* SpecConfig: any sequence of create_config, get_api_key and set_api_key  *)
(* on one configuration file.  last_set remembers the key of the last      *)
(* set_api_key that returned.                                              *)
(***************************************************************************)
InitConfig ==
    /\ pc = "config"
    /\ dir_writable \in BOOLEAN
    /\ file \in InitialFiles
    /\ op = NoOp
    /\ last_set = <<>>
    /\ IdleResolver
    /\ IdleCaller
    /\ IdleClient
    /\ IdleSession
    /\ IdleAgent

CreateConfig ==
    /\ pc = "config"
    /\ LET r == create_config(file, dir_writable)
       IN  /\ file' = r.file
           /\ op' = [ name |-> "create_config", arg |-> <<>>, result |-> r.result ]
    /\ UNCHANGED <<pc, dir_writable, last_set>>
    /\ UNCHANGED <<resolverVars, callerVars, agentVars, clientVars, sessionVars>>

GetApiKey ==
    /\ pc = "config"
    /\ op' = [ name |-> "get_api_key", arg |-> <<>>, result |-> get_api_key(file) ]
    /\ UNCHANGED <<pc, dir_writable, file, last_set>>
    /\ UNCHANGED <<resolverVars, callerVars, agentVars, clientVars, sessionVars>>

SetApiKey ==
    /\ pc \in {"config", "key"}
    /\ \E api_key \in IF pc = "key" THEN {op.arg} ELSE ConfigKeys :
          LET r == set_api_key(file, dir_writable, api_key)
          IN  /\ file' = r.file
              /\ op' = [ name |-> "set_api_key", arg |-> api_key, result |-> r.result ]
              /\ last_set' = IF r.result.raised THEN last_set ELSE <<api_key>>
    /\ pc' = IF pc = "key" THEN "key_set" ELSE pc
    /\ UNCHANGED dir_writable
    /\ UNCHANGED <<resolverVars, callerVars, agentVars, clientVars, sessionVars>>

NextConfig == CreateConfig \/ GetApiKey \/ SetApiKey

SpecConfig == InitConfig /\ [][NextConfig]_vars

(***************************************************************************)
(* SpecKey: validate_api_key_format, and set_api_key with no file yet, on  *)
(* any key.                                                                *)
(***************************************************************************)
MaxKeyFrags == 4

KeyFragments ==
    << <<"c","t","x","7","s","k">>, <<"_">>, <<"-">>, <<"a","b","c">>, <<"d">>, <<"C","T","X","7","S","K","_">>, <<"x">> >>

Keys ==
    { Concat([ i \in DOMAIN fs |-> KeyFragments[fs[i]] ]) :
        fs \in UNION { [1..n -> 1..Len(KeyFragments)] : n \in 0..MaxKeyFrags } }

InitKey ==
    /\ pc = "key"
    /\ dir_writable = TRUE
    /\ file = NoFile
    /\ op \in { [ name |-> "", arg |-> k, result |-> <<>> ] : k \in Keys }
    /\ last_set = <<>>
    /\ IdleResolver
    /\ IdleCaller
    /\ IdleClient
    /\ IdleSession
    /\ IdleAgent

ValidateApiKeyFormat ==
    /\ pc = "key"
    /\ op' = [ name |-> "validate_api_key_format", arg |-> op.arg,
               result |-> Ok(validate_api_key_format(op.arg)) ]
    /\ pc' = "key_validated"
    /\ UNCHANGED <<dir_writable, file, last_set>>
    /\ UNCHANGED <<resolverVars, callerVars, agentVars, clientVars, sessionVars>>

NextKey == ValidateApiKeyFormat \/ SetApiKey

SpecKey == InitKey /\ [][NextKey]_vars

(***************************************************************************)
(* SpecMain: main from its entry (main.py lines 60-139): the question and  *)
(* the token limit are checked, the API key is looked up, the client and   *)
(* the resolver are built, _resolve_library runs, and the documentation    *)
(* request is made.  The resolver is the collaborator here: its call       *)
(* returns any (identifier, confidence) pair.                              *)
(***************************************************************************)
\* main.py lines 221-231
validate_tokens(tokens) ==
    IF ~(1000 <= tokens /\ tokens <= 50000)
    THEN Failure("ValueError", "Tokens must be between 1000 and 50000")
    ELSE Result(None)

\* how lines 70-107 end: with sys.exit(1), or with the key the client is
\* built with; the texts printed and the ConfigManager methods called
Exits(out, log) ==
    [ exit |-> TRUE, key |-> None, printed |-> out, config_log |-> log ]

Continues(key, out, log) ==
    [ exit |-> FALSE, key |-> key, printed |-> out, config_log |-> log ]

\* lines 70-107 with the configuration file asked before the environment
startup_prefers_config(q, tokens, env_key, f, dbg) ==
    IF q = <<>>
    THEN Exits(<< <<"error", "Please provide a question. Use --help for usage.", None>> >>, <<>>)
    ELSE IF validate_tokens(tokens).raised
    THEN Exits(<< <<"error", main_handler("ValueError", validate_tokens(tokens).value),
                    "ValueError">> >>, <<>>)
    ELSE IF config_exists(f) /\ ~get_api_key(f).raised /\ truthy(get_api_key(f).value)
    THEN Continues(get_api_key(f).value, <<>>, <<"config_exists", "get_api_key">>)
    ELSE IF truthy(env_key)
    THEN Continues(env_key, <<>>, <<"config_exists", "get_api_key">>)
    ELSE Exits(<< <<"error", "API key not found. Run coderef --init to set up.", None>> >>,
               <<"config_exists", "get_api_key">>)

\* lines 70-107 with the token limit checked after the key lookup
startup_validates_late(q, tokens, env_key, f, dbg) ==
    IF q = <<>>
    THEN Exits(<< <<"error", "Please provide a question. Use --help for usage.", None>> >>, <<>>)
    ELSE IF truthy(env_key)
    THEN IF validate_tokens(tokens).raised
         THEN Exits(<< <<"error", main_handler("ValueError", validate_tokens(tokens).value),
                         "ValueError">> >>, <<>>)
         ELSE Continues(env_key, <<>>, <<>>)
    ELSE IF ~config_exists(f)
    THEN Exits(<< <<"error", "Configuration not found. Run coderef --init to set up.", None>> >>,
               <<"config_exists">>)
    ELSE IF get_api_key(f).raised \/ ~truthy(get_api_key(f).value)
    THEN Exits(<< <<"error", "API key not found. Run coderef --init to set up.", None>> >>,
               <<"config_exists", "get_api_key">>)
    ELSE IF validate_tokens(tokens).raised
    THEN Exits(<< <<"error", main_handler("ValueError", validate_tokens(tokens).value),
                    "ValueError">> >>, <<"config_exists", "get_api_key">>)
    ELSE Continues(get_api_key(f).value, <<>>, <<"config_exists", "get_api_key">>)

\* main.py lines 70-107
startup(q, tokens, env_key, f, dbg) ==
    IF q = <<>>
    THEN Exits(<< <<"error", "Please provide a question. Use --help for usage.", None>> >>, <<>>)
    ELSE IF validate_tokens(tokens).raised
    THEN Exits(<< <<"error", main_handler("ValueError", validate_tokens(tokens).value),
                    "ValueError">> >>, <<>>)
    ELSE LET source == IF ~dbg THEN <<>>
                       ELSE IF truthy(env_key)
                       THEN << <<"plain", "[DEBUG] Using API key from CONTEXT7_API_KEY environment variable">> >>
                       ELSE << <<"plain", "[DEBUG] Falling back to config file...">> >>
         IN  IF truthy(env_key) THEN Continues(env_key, source, <<>>)
             ELSE IF ~config_exists(f)
             THEN Exits(source \o << <<"error", "Configuration not found. Run coderef --init to set up.", None>> >>,
                        <<"config_exists">>)
             ELSE LET stored == get_api_key(f)
                  IN  IF stored.raised
                      THEN Exits(source \o << <<"error", main_handler(stored.error, "Failed to read config file: {e}"),
                                                stored.error>> >>,
                                 <<"config_exists", "get_api_key">>)
                      ELSE IF ~truthy(stored.value)
                      THEN Exits(source \o << <<"error", "API key not found. Run coderef --init to set up.", None>> >>,
                                 <<"config_exists", "get_api_key">>)
                      ELSE Continues(stored.value,
                                     source \o (IF dbg
                                                THEN << <<"plain", "[DEBUG] Using API key from ~/.coderef/config.toml">> >>
                                                ELSE <<>>),
                                     <<"config_exists", "get_api_key">>)

\* the values of CONTEXT7_API_KEY: not set, empty, a key
EnvKeyOpts == { None, "", "ctx7sk_env_key" }

\* the configuration files main may find
MainFiles ==
    { NoFile,
      [ exists |-> TRUE, mode |-> MODE_0600, invalid |-> FALSE,
        config |-> [ context7 |-> [ api_key |-> "ctx7sk_file_key" ] ] ],
      [ exists |-> TRUE, mode |-> MODE_0600, invalid |-> FALSE,
        config |-> [ context7 |-> [ api_key |-> "" ] ] ],
      [ exists |-> TRUE, mode |-> MODE_0600, invalid |-> FALSE,
        config |-> [ ui |-> [ theme |-> "dark" ] ] ],
      [ exists |-> TRUE, mode |-> MODE_0600, invalid |-> TRUE, config |-> <<>> ] }

InitMain ==
    /\ pc = "main"
    /\ question \in MainQuestions \cup { <<>> }
    /\ keywords = <<>>
    /\ match = <<>>
    /\ score = 0
    /\ confidence = 0
    /\ level = ""
    /\ idx = 0
    /\ all_results = <<>>
    /\ calls = <<>>
    /\ responses = <<>>
    /\ ret = <<>>
    /\ library \in LibraryOpts
    /\ version \in VersionOpts
    /\ skip_detect \in BOOLEAN
    /\ debug \in BOOLEAN
    /\ cli_tokens \in TokenOpts
    /\ env_api_key \in EnvKeyOpts
    /\ main_api_key = None
    /\ config_log = <<>>
    /\ printed = <<>>
    /\ outcome = <<>>
    /\ request = <<>>
    /\ exit_code = None
    /\ resolve_calls = <<>>
    /\ dir_writable = TRUE
    /\ file \in MainFiles
    /\ op = NoOp
    /\ last_set = <<>>
    /\ IdleAgent
    /\ IdleClient
    /\ IdleSession

\* main.py lines 70-108: up to the construction of the client and the resolver
MainStart ==
    /\ pc = "main"
    /\ \E s \in { startup(question, cli_tokens, env_api_key, file, debug) } :
          /\ printed' = printed \o s.printed
          /\ config_log' = config_log \o s.config_log
          /\ main_api_key' = s.key
          /\ IF s.exit
             THEN /\ exit_code' = 1
                  /\ pc' = "exit"
             ELSE /\ exit_code' = exit_code
                  /\ pc' = "resolve_library"
    /\ UNCHANGED <<library, version, skip_detect, debug, outcome, request,
                   resolve_calls, cli_tokens, env_api_key>>
    /\ UNCHANGED <<resolverVars, configVars, agentVars, clientVars, sessionVars>>

NextMain == MainStart \/ ResolveLibrary \/ GetContextReturns \/ GetContextRaises

SpecMain == InitMain /\ [][NextMain]_vars

(***************************************************************************)
(* SpecClient: one call of a method of Context7Client, with any outcome of *)
(* its HTTP request.  request holds the parameters of the request sent,    *)
(* if one was sent.                                                        *)
(***************************************************************************)
ClientLibraryOpts == { None, "/facebook/react" }

InitClient ==
    /\ pc = "client"
    /\ IdleResolver
    /\ IdleCaller
    /\ IdleClient
    /\ IdleSession
    /\ IdleConfig
    /\ IdleAgent

ValidateApiKey ==
    /\ pc = "client"
    /\ \E http \in HttpOutcomes :
          client_op' = [ name |-> "validate_api_key", arg |-> <<>>, http |-> http,
                         result |-> validate_api_key(http) ]
    /\ request' = [ libraryName |-> "react", query |-> "test" ]
    /\ pc' = "client_done"
    /\ UNCHANGED <<library, version, skip_detect, debug, printed, outcome,
                   exit_code, resolve_calls,
                   cli_tokens, env_api_key, main_api_key, config_log>>
    /\ UNCHANGED <<resolverVars, configVars, agentVars, sessionVars>>

SearchLibrary ==
    /\ pc = "client"
    /\ \E library_name \in { "react", "python" } : \E query \in MainQuestions :
       \E http \in HttpOutcomes :
          \E r \in { search_library(library_name, query, http) } :
              /\ client_op' = [ name |-> "search_library", arg |-> <<library_name, query>>,
                                http |-> http, result |-> r.result ]
              /\ request' = r.params
    /\ pc' = "client_done"
    /\ UNCHANGED <<library, version, skip_detect, debug, printed, outcome,
                   exit_code, resolve_calls,
                   cli_tokens, env_api_key, main_api_key, config_log>>
    /\ UNCHANGED <<resolverVars, configVars, agentVars, sessionVars>>

GetContext ==
    /\ pc = "client"
    /\ \E library_id \in ClientLibraryOpts : \E query \in MainQuestions :
       \E tokens \in TokenOpts : \E http \in HttpOutcomes :
          \E r \in { get_context(library_id, query, tokens, http) } :
              /\ client_op' = [ name |-> "get_context", arg |-> <<library_id, query, tokens>>,
                                http |-> IF r.sent THEN http ELSE <<>>,
                                result |-> r.result ]
              /\ request' = r.params
    /\ pc' = "client_done"
    /\ UNCHANGED <<library, version, skip_detect, debug, printed, outcome,
                   exit_code, resolve_calls,
                   cli_tokens, env_api_key, main_api_key, config_log>>
    /\ UNCHANGED <<resolverVars, configVars, agentVars, sessionVars>>

NextClient == ValidateApiKey \/ SearchLibrary \/ GetContext

SpecClient == InitClient /\ [][NextClient]_vars

(***************************************************************************)
(* SpecMainAndClient: the program run from main, or get_context and the    *)
(* other methods of the client called directly.                            *)
(***************************************************************************)
InitMainAndClient == InitMain \/ InitClient

NextMainAndClient == NextMain \/ NextClient

SpecMainAndClient == InitMainAndClient /\ [][NextMainAndClient]_vars

(***************************************************************************)
(* SpecAgent: _extract_final_text (agent.py) on any list of content        *)
(* blocks.  A block is a record of the attributes it has: text blocks have *)
(* type and text, tool-use and tool-result blocks have type only.          *)
(***************************************************************************)
MaxBlocks == 4

BlockKinds ==
    { [ type |-> "text", text |-> <<"P","1">> ],
      [ type |-> "text", text |-> <<"Q">> ],
      [ type |-> "text", text |-> <<>> ],
      [ type |-> "mcp_tool_use" ],
      [ type |-> "mcp_tool_result" ],
      [ type |-> "web_search_tool_result" ] }

ContentBlocks == UNION { [1..n -> BlockKinds] : n \in 0..MaxBlocks }

\* line 42
TOOL_RESULT_TYPES == {"mcp_tool_result", "web_search_tool_result"}

hasattr(block, name) == name \in DOMAIN block

\* the index of the first tool result among the first n blocks, or -1
RECURSIVE first_tool_result_idx(_, _)
first_tool_result_idx(blocks, n) ==
    IF n = 0 THEN -1
    ELSE LET before == first_tool_result_idx(blocks, n - 1)
         IN  IF before = -1 /\ get(blocks[n], "type", None) \in TOOL_RESULT_TYPES
             THEN n - 1 ELSE before

\* lines 39-43: last_tool_result_idx after the first n blocks; indices count
\* from 0 as enumerate does
RECURSIVE last_tool_result_idx(_, _)
last_tool_result_idx(blocks, n) ==
    IF n = 0 THEN -1
    ELSE IF get(blocks[n], "type", None) \in TOOL_RESULT_TYPES
         THEN n - 1
         ELSE last_tool_result_idx(blocks, n - 1)

\* lines 46-49: text_parts after the first n blocks
RECURSIVE text_parts(_, _, _)
text_parts(blocks, last, n) ==
    IF n = 0 THEN <<>>
    ELSE LET parts == text_parts(blocks, last, n - 1)
         IN  IF n - 1 > last /\ hasattr(blocks[n], "text")
             THEN Append(parts, blocks[n].text) ELSE parts

\* lines 26-57
extract_final_text(blocks) ==
    LET last  == last_tool_result_idx(blocks, Len(blocks))
        parts == text_parts(blocks, last, Len(blocks))
        all   == IF last = -1 /\ parts = <<>>
                 THEN text_parts(blocks, -1, Len(blocks))
                 ELSE parts
    IN  IF all # <<>> THEN Concat(all) ELSE <<>>

InitAgent ==
    /\ pc = "agent"
    /\ content_blocks \in ContentBlocks
    /\ final_text = <<>>
    /\ IdleResolver
    /\ IdleCaller
    /\ IdleClient
    /\ IdleSession
    /\ IdleConfig

ExtractFinalText ==
    /\ pc = "agent"
    /\ final_text' = extract_final_text(content_blocks)
    /\ pc' = "agent_done"
    /\ UNCHANGED content_blocks
    /\ UNCHANGED <<resolverVars, callerVars, configVars, clientVars, sessionVars>>

NextAgent == ExtractFinalText

SpecAgent == InitAgent /\ [][NextAgent]_vars

(***************************************************************************)
(* Properties.  Helper definitions used only to state them.                *)
(***************************************************************************)
\* sub occurs in s, by comparing slices
OccursIn(s, sub) ==
    \E p \in 1..(Len(s) - Len(sub) + 1) : SubSeq(s, p, p + Len(sub) - 1) = sub

\* kw occurs in s with no word character right before or right after it
BoundedOccurrence(kw, s) ==
    \E p \in 1..(Len(s) - Len(kw) + 1) :
        /\ s[p] = kw[1]
        /\ SubSeq(s, p, p + Len(kw) - 1) = kw
        /\ (p = 1 \/ ~IsWordChar(s[p - 1]))
        /\ (p + Len(kw) - 1 = Len(s) \/ ~IsWordChar(s[p + Len(kw)]))

\* the catalog positions of the keywords that occur, bounded, in question q
MatchingPositions(q) ==
    LET ql == lower(q)
    IN  { i \in 1..Len(all_keywords) : BoundedOccurrence(all_keywords[i], ql) }

\* the j-th smallest element of a set of numbers
NthSmallest(S, j) == CHOOSE i \in S : Cardinality({ m \in S : m < i }) = j - 1

\* 1 for a language, 2 for a framework, 3 for a library
CategoryRank(kw) ==
    IF kw \in Range(keyword_map.languages) THEN 1
    ELSE IF kw \in Range(keyword_map.frameworks) THEN 2
    ELSE 3

\* str.upper() on the model's characters
upper(s) ==
    [ i \in 1..Len(s) |->
        IF \E k \in 1..Len(LowerLetters) : LowerLetters[k] = s[i]
        THEN UpperLetters[CHOOSE k \in 1..Len(LowerLetters) : LowerLetters[k] = s[i]]
        ELSE s[i] ]

\* the resolve questions in which no catalog keyword occurs
KeywordFreeQuestions ==
    { q \in ResolveQuestions : MatchingPositions(q) = {} }

\* the candidates the successful searches of this call returned, in order
RECURSIVE Returned(_)
Returned(rs) ==
    IF rs = <<>> THEN <<>>
    ELSE (IF Head(rs).raised THEN <<>> ELSE Head(rs).results) \o Returned(Tail(rs))

\* calculate_confidence of every candidate against the keywords of every
\* question of ResolveQuestions, computed once
ConfidenceOf ==
    [ kws \in { extract_keywords(q) : q \in ResolveQuestions } |->
        [ c \in Candidates |-> calculate_confidence(c, kws) ] ]

\* the two example candidates of the specification
ReactExample ==
    [ name |-> <<"r","e","a","c","t">>, description |-> <<"R","e","a","c","t"," ","R","e","a","c","t"," ","R","e","a","c","t"," ","R","e","a","c","t">>, popularity |-> 100 ]

SomeLibExample ==
    [ name |-> <<"s","o","m","e","-","l","i","b">>, description |-> <<"A"," ","P","y","t","h","o","n"," ","l","i","b","r","a","r","y"," ","f","o","r"," ","d","a","t","a"," ","a","n","a","l","y","s","i","s">>, popularity |-> 10 ]

\* C1 (as claimed): every value calculate_confidence returns lies in
\* [0.0, 1.0], whatever the candidate's popularity.
C1_ConfidenceInUnitInterval ==
    pc = "scored" => (0 <= confidence /\ confidence <= ONE)

\* C2: resolve_from_question returns a present identifier if and only if at
\* least one candidate was returned across the keyword searches of the call.
C2_IdentifierIffCandidate ==
    pc = "done" =>
        ((ret[1] # None) <=>
            (\E i \in 1..Len(responses) :
                ~responses[i].raised /\ responses[i].results # <<>>))

C2_Witness ==
    /\ pc = "done"
    /\ ret[1] # None
    /\ ret[2] < MEDIUM_THRESHOLD
    /\ \E i \in 1..Len(responses) : responses[i].results = <<>>

\* C3: for a question with no catalog keyword, extract_keywords returns the
\* empty sequence, resolve_from_question returns (absent, 0.0), and
\* search_library is never invoked.
C3_NoKeywordNoSearch ==
    question \in KeywordFreeQuestions =>
        /\ calls = <<>>
        /\ pc = "done" => (keywords = <<>> /\ ret = <<None, 0>>)
        /\ pc # "search"

C3_Witness ==
    /\ pc = "done"
    /\ question \in KeywordFreeQuestions
    /\ OccursIn(lower(question), <<"n","u","m","p","y">>)

\* C4: extract_keywords returns at most 3 keywords, without duplicates, each
\* an exact entry of the catalog.
C4_AtMostThreeCatalogKeywords ==
    pc = "extracted" =>
        /\ Len(keywords) <= 3
        /\ \A i, j \in 1..Len(keywords) : keywords[i] = keywords[j] => i = j
        /\ \A i \in 1..Len(keywords) : keywords[i] \in Range(all_keywords)

C4_Witness ==
    /\ pc = "extracted"
    /\ Len(keywords) = 3
    /\ Cardinality(MatchingPositions(question)) = 4

\* C5: a catalog keyword is matched exactly where it occurs in the lower-cased
\* question with no word character on either side (so not inside a longer
\* word; punctuated keywords match when so bounded), and the result is the
\* same for the upper-cased question.
C5_WordBoundaryMatching ==
    pc = "extracted" =>
        LET ql == lower(question)
        IN  /\ \A i \in 1..Len(keywords) : BoundedOccurrence(keywords[i], ql)
            /\ \A kw \in Range(all_keywords) :
                   BoundedOccurrence(kw, ql) =>
                       (kw \in Range(keywords) \/ Len(keywords) = 3)
            /\ extract_keywords(upper(question)) = keywords

C5_Witness ==
    /\ pc = "extracted"
    /\ question = <<"C","+","+","j","i","n","j","a","2">>
    /\ keywords = << <<"j","i","n","j","a","2">> >>

\* C6: the result is the first 3 (or fewer) matching keywords in catalog
\* order, wherever they stand in the question; a dropped keyword never ranks
\* before a kept one (language before framework before library).
C6_FirstThreeInCatalogOrder ==
    pc = "extracted" =>
        LET M == MatchingPositions(question)
        IN  /\ Len(keywords) = (IF Cardinality(M) < 3 THEN Cardinality(M) ELSE 3)
            /\ \A j \in 1..Len(keywords) : keywords[j] = all_keywords[NthSmallest(M, j)]
            /\ \A i \in M :
                   all_keywords[i] \notin Range(keywords) =>
                       \A j \in 1..Len(keywords) :
                           CategoryRank(keywords[j]) <= CategoryRank(all_keywords[i])

C6_Witness ==
    /\ pc = "extracted"
    /\ keywords = << <<"j","a","v","a">>, <<"r","e","a","c","t">>, <<"n","u","m","p","y">> >>
    /\ BoundedOccurrence(<<"p","a","n","d","a","s">>, lower(question))
    /\ SubSeq(lower(question), 1, 6) = <<"p","a","n","d","a","s">>

\* C7: calculate_confidence = min(1.0, S + B): S is 0.5 per keyword found in
\* the lower-cased name (title when there is no name) plus 0.3 per keyword
\* found in the lower-cased description, once per keyword; B is
\* min(popularity/100, 0.2) with keywords and 0 without.  The some-lib
\* example scores 0.4.
C7_ScoreFormula ==
    pc = "scored" =>
        LET nm == lower(IF "name" \in DOMAIN match THEN match.name
                        ELSE IF "title" \in DOMAIN match THEN match.title
                        ELSE <<>>)
            ds == lower(IF "description" \in DOMAIN match THEN match.description
                        ELSE <<>>)
            pp == IF "popularity" \in DOMAIN match THEN match.popularity ELSE 0
            S  == 50000 * Cardinality({ i \in 1..Len(keywords) : OccursIn(nm, keywords[i]) })
                  + 30000 * Cardinality({ i \in 1..Len(keywords) : OccursIn(ds, keywords[i]) })
            B  == IF keywords = <<>> THEN 0
                  ELSE IF pp * 1000 < 20000 THEN pp * 1000 ELSE 20000
        IN  /\ confidence = (IF S + B < 100000 THEN S + B ELSE 100000)
            /\ (match = SomeLibExample /\ keywords = << <<"p","y","t","h","o","n">> >>)
                   => confidence = 40000

C7_Witness ==
    /\ pc = "scored"
    /\ match = SomeLibExample
    /\ keywords = << <<"p","y","t","h","o","n">> >>
    /\ confidence = 40000

\* C8 (as claimed): for the react example scored against ["react"] the raw
\* score exceeds 1.0 before clamping and the returned value is exactly 1.0.
C8_RawExceedsOne ==
    (pc = "scored" /\ match = ReactExample /\ keywords = << <<"r","e","a","c","t">> >>)
        => (score > ONE /\ confidence = ONE)

\* C8 (amended): for the react example scored against ["react"] the raw
\* score is exactly 1.0 (0.5 + 0.3 + 0.2), and the returned value is
\* exactly 1.0.
C8_RawEqualsOne ==
    (pc = "scored" /\ match = ReactExample /\ keywords = << <<"r","e","a","c","t">> >>)
        => (score = 100000 /\ confidence = 100000)

C8_Witness ==
    /\ pc = "scored"
    /\ match = ReactExample
    /\ keywords = << <<"r","e","a","c","t">> >>

\* C9: get_confidence_level is "high" from 0.8 up, "medium" from 0.5 up to
\* but excluding 0.8, and "low" below 0.5.
C9_LevelBands ==
    pc = "labelled" =>
        /\ confidence >= 80000 => level = "high"
        /\ (confidence >= 50000 /\ confidence < 80000) => level = "medium"
        /\ confidence < 50000 => level = "low"
        /\ level \in {"high", "medium", "low"}

C9_Witness ==
    /\ pc = "labelled"
    /\ confidence = 80000
    /\ level = "high"

\* C10: when one keyword's search raises and another's returns candidates,
\* every keyword is still searched, in order, and the result is the
\* identifier and score of the best candidate of the successful searches,
\* never (absent, 0.0).
C10_PartialFailureTolerated ==
    (/\ pc = "done"
     /\ \E i \in 1..Len(responses) : responses[i].raised
     /\ \E i \in 1..Len(responses) : responses[i].results # <<>>)
    => LET got == Returned(responses)
       IN  /\ Len(calls) = Len(keywords)
           /\ \A i \in 1..Len(calls) : calls[i][1] = keywords[i]
           /\ ret[1] # None
           /\ \E j \in 1..Len(got) :
                  /\ ret = <<got[j].id, ConfidenceOf[keywords][got[j]]>>
                  /\ \A k \in 1..Len(got) :
                         ConfidenceOf[keywords][got[k]] <= ret[2]

C10_Witness ==
    /\ pc = "done"
    /\ Len(responses) = 3
    /\ ~responses[1].raised /\ responses[1].results = <<>>
    /\ responses[2].raised
    /\ responses[3].results # <<>>
    /\ ret[1] # None

\* C11: no error raised by search_library leaves resolve_from_question: after
\* a raising search the loop goes on to the next keyword and the call ends by
\* returning a pair; when every search raised or returned no candidate, the
\* pair is (absent, 0.0).
C11_SearchErrorsNeverPropagate ==
    /\ pc # "raised"
    /\ \A i \in 1..Len(responses) : responses[i].raised => idx > i
    /\ pc = "done" =>
          /\ Len(ret) = 2
          /\ (\A i \in 1..Len(responses) :
                  responses[i].raised \/ responses[i].results = <<>>)
              => ret = <<None, 0>>

C11_Witness ==
    /\ pc = "done"
    /\ Len(responses) = 3
    /\ responses[1].error = "AuthError"
    /\ responses[2].error = "Exception"
    /\ ~responses[3].raised /\ responses[3].results = <<>>
    /\ ret = <<None, 0>>

\* C12: with a non-empty pool, the call returns the identifier and confidence
\* of the candidate of maximum confidence; among candidates of equal maximum
\* confidence, the first in pool order (keyword order, then result order).
C12_FirstMaximumWins ==
    (pc = "done" /\ all_results # <<>>) =>
        LET got == Returned(responses)
        IN  /\ Len(all_results) = Len(got)
            /\ \A k \in 1..Len(got) :
                  /\ all_results[k].id = got[k].id
                  /\ all_results[k].confidence = ConfidenceOf[keywords][got[k]]
            /\ \E j \in 1..Len(got) :
                  /\ ret = <<got[j].id, all_results[j].confidence>>
                  /\ \A k \in 1..Len(got) :
                        all_results[k].confidence <= all_results[j].confidence
                  /\ \A k \in 1..(j - 1) :
                        all_results[k].confidence < all_results[j].confidence

C12_Witness ==
    /\ pc = "done"
    /\ Len(all_results) >= 2
    /\ \E j \in 1..Len(all_results) :
          /\ ret = <<all_results[j].id, all_results[j].confidence>>
          /\ \E k \in (j + 1)..Len(all_results) :
                /\ all_results[k].confidence = all_results[j].confidence
                /\ all_results[k].id # all_results[j].id
          /\ \A k \in 1..Len(all_results) :
                all_results[k].confidence <= all_results[j].confidence

Warnings == { i \in 1..Len(printed) : printed[i][1] = "warning" }

\* C13: without an explicit library and without the skip flag, for a resolver
\* result with an identifier present exactly one of three things happens:
\* confidence >= 0.8, the identifier is returned and no warning is printed;
\* 0.5 <= confidence < 0.8, the identifier is returned and one warning
\* showing the confidence is printed; confidence < 0.5, a ValueError is
\* raised, main exits with status 1 and no documentation request is made.
C13_CallerPolicyTiers ==
    (/\ outcome # <<>>
     /\ ~truthy(library) /\ ~skip_detect
     /\ Len(ret) = 2 /\ ret[1] # None)
    => LET returned_id == ~outcome.raised /\ outcome.value = ret[1]
           refused     == /\ outcome.raised
                          /\ outcome.error = "ValueError"
                          /\ pc = "exit" /\ exit_code = 1
                          /\ request = <<>>
       IN  /\ ret[2] >= 80000 => returned_id /\ Warnings = {}
           /\ (ret[2] >= 50000 /\ ret[2] < 80000) =>
                 /\ returned_id
                 /\ \E i \in 1..Len(printed) :
                       /\ Warnings = {i}
                       /\ printed[i] = <<"warning", "Using library", ret[1], format_2f(ret[2])>>
           /\ ret[2] < 50000 => refused
           /\ returned_id => (request # <<>> => request.libraryId = ret[1])
           /\ ~(returned_id /\ refused)

C13_Witness ==
    /\ pc = "done"
    /\ ~truthy(library) /\ ~skip_detect
    /\ ret = <<"/facebook/react", 79999>>
    /\ printed[1] = <<"warning", "Using library", "/facebook/react", 80>>
    /\ request.libraryId = "/facebook/react"

\* C14: with the skip flag set and no explicit library, _resolve_library
\* returns no identifier and raises nothing, without calling the resolver,
\* for every question; the documentation request that follows carries the
\* question and no library identifier.
C14_SkipNeverRefuses ==
    (/\ outcome # <<>>
     /\ ~truthy(library) /\ skip_detect)
    => /\ outcome = [ raised |-> FALSE, value |-> None, error |-> None ]
       /\ resolve_calls = <<>>
       /\ pc \in {"get_context", "done", "exit"}
       /\ pc \in {"done", "exit"} =>
             /\ request # <<>>
             /\ "libraryId" \notin DOMAIN request
             /\ request.query = question

C14_Witness ==
    /\ pc = "done"
    /\ library = None /\ skip_detect
    /\ outcome.value = None
    /\ request = [ query |-> question, tokens |-> DEFAULT_TOKENS ]
    /\ exit_code = 0

\* the key toml.load finds under [context7] api_key, if any
HasStoredKey(f) ==
    /\ f.exists /\ ~f.invalid
    /\ "context7" \in DOMAIN f.config
    /\ "api_key" \in DOMAIN f.config["context7"]

\* the key starts with ctx7sk_ or ctx7sk- and has more than 10 characters
HasKeyFormat(k) ==
    /\ Len(k) > 10
    /\ SubSeq(k, 1, 6) = <<"c","t","x","7","s","k">>
    /\ k[7] \in {"_", "-"}

C17_InvalidKeyLeavesConfigUnchanged ==
    [][ (pc = "config" /\ op' # op /\ op'.name = "set_api_key" /\ ~HasKeyFormat(op'.arg))
        => /\ op'.result = [ raised |-> TRUE, value |-> None, error |-> "ValueError" ]
           /\ file' = file
           /\ last_set' = last_set
           /\ get_api_key(file') = get_api_key(file) ]_vars

C17_Witness ==
    /\ pc = "config"
    /\ op = [ name |-> "set_api_key", arg |-> <<>>,
              result |-> [ raised |-> TRUE, value |-> None, error |-> "ValueError" ] ]
    /\ last_set = <<K_ONE>>
    /\ file.config["context7"]["api_key"] = K_ONE

\* C18: after every create_config or set_api_key call that returns, the
\* file exists with permission mode 0600.
C18_ModeIs0600AfterSuccess ==
    (pc = "config" /\ op.name \in {"create_config", "set_api_key"} /\ ~op.result.raised)
        => file.exists /\ file.mode = 384

C18_Witness ==
    /\ pc = "config"
    /\ op.name = "create_config" /\ ~op.result.raised
    /\ file.mode = 384
    /\ HasStoredKey(file)
    /\ last_set = <<>>

\* C20: validate_api_key_format returns true exactly for the keys that start
\* with ctx7sk_ or ctx7sk- and have more than 10 characters, and
\* set_api_key raises ValueError exactly for the other keys; a key of that
\* format is stored.
C20_KeyFormat ==
    /\ pc = "key_validated" =>
          (op.result.value <=> HasKeyFormat(op.arg))
    /\ pc = "key_set" =>
          /\ op.result.raised <=> ~HasKeyFormat(op.arg)
          /\ op.result.raised => (op.result.error = "ValueError" /\ file = NoFile)
          /\ ~op.result.raised =>
                /\ HasStoredKey(file)
                /\ file.config["context7"]["api_key"] = op.arg

C20_Witness ==
    /\ pc = "key_set"
    /\ op.arg = <<"c","t","x","7","s","k","-","a","b","c","d">>
    /\ ~op.result.raised
    /\ file.exists

\* the positions of the tool-result blocks, and of the blocks with text
ToolResultPositions ==
    { i \in 1..Len(content_blocks) :
        content_blocks[i].type \in {"mcp_tool_result", "web_search_tool_result"} }

TextPositions ==
    { i \in 1..Len(content_blocks) : content_blocks[i].type = "text" }

\* the texts of the blocks at the positions S, joined in order
JoinedAt(S) ==
    Concat([ k \in 1..Cardinality(S) |-> content_blocks[NthSmallest(S, k)].text ])

\* C19: _extract_final_text returns the texts of exactly the text blocks
\* after the last mcp_tool_result or web_search_tool_result block, joined in
\* order: nothing of the text before or between tool results, the empty
\* string when no text follows the last tool result, and every text block
\* when there is no tool result.
C19_TextAfterLastToolResult ==
    pc = "agent_done" =>
        LET After == { i \in TextPositions : \A j \in ToolResultPositions : j < i }
        IN  /\ final_text = JoinedAt(After)
            /\ After = {} => final_text = <<>>
            /\ ToolResultPositions = {} => final_text = JoinedAt(TextPositions)

C19_Witness ==
    /\ pc = "agent_done"
    /\ content_blocks = << [ type |-> "mcp_tool_result" ],
                           [ type |-> "text", text |-> <<"P","1">> ],
                           [ type |-> "web_search_tool_result" ],
                           [ type |-> "text", text |-> <<"Q">> ] >>
    /\ final_text = <<"Q">>

\* C21: in one call of resolve_from_question the searches are exactly one per
\* extracted keyword, at most three, in keyword order, each with the keyword
\* and the full original question; no keyword is searched a second time after
\* a failure, and a search is issued only when every earlier one has returned
\* or raised.
C21_OneSearchPerKeywordInOrder ==
    /\ Len(calls) <= Len(keywords)
    /\ Len(calls) <= MAX_KEYWORDS
    /\ \A i \in 1..Len(calls) : calls[i] = <<keywords[i], question>>
    /\ \A i \in 1..Len(calls) : \A j \in 1..Len(calls) :
           i # j => calls[i][1] # calls[j][1]
    /\ Len(calls) = Len(responses) + (IF pc = "waiting" THEN 1 ELSE 0)
    /\ pc = "done" => Len(calls) = Len(keywords)

C21_Witness ==
    /\ pc = "done"
    /\ Len(calls) = 3
    /\ responses[1].raised
    /\ ~responses[2].raised
    /\ responses[3].raised
    /\ calls[3] = <<keywords[3], question>>

\* the keywords of the questions of ResolveQuestions that occur in the
\* lower-cased display name, and in the lower-cased description, of a candidate
QuestionKeywords ==
    UNION { Range(extract_keywords(q)) : q \in ResolveQuestions }

InName ==
    [ c \in Candidates |->
        { kw \in QuestionKeywords :
            OccursIn(lower(get(c, "name", get(c, "title", <<>>))), kw) } ]

InDescription ==
    [ c \in Candidates |->
        { kw \in QuestionKeywords :
            OccursIn(lower(get(c, "description", <<>>)), kw) } ]

\* the popularity term of a candidate's score for a non-empty keyword list
PopularityBonus ==
    [ c \in Candidates |->
        Min(popularity_over_100(get(c, "popularity", 0)), POPULARITY_CAP) ]

\* C22: every pooled candidate is scored against the full keyword list of the
\* question: its confidence is calculate_confidence(candidate, keywords), so a
\* keyword other than the searched one that occurs in its name (description)
\* adds its 0.5 (0.3) before the cap, and equal candidate records have equal
\* confidences whichever search returned them.
C22_ScoredAgainstAllKeywords ==
    LET got == Returned(responses)
    IN  /\ Len(all_results) = Len(got)
        /\ \A k \in 1..Len(got) :
              /\ all_results[k].confidence = ConfidenceOf[keywords][got[k]]
              /\ \A i \in 1..Len(keywords) :
                    /\ keywords[i] \in InName[got[k]] =>
                          all_results[k].confidence >=
                              Min(ONE, PopularityBonus[got[k]] + NAME_WEIGHT)
                    /\ keywords[i] \in InDescription[got[k]] =>
                          all_results[k].confidence >=
                              Min(ONE, PopularityBonus[got[k]] + DESCRIPTION_WEIGHT)
              /\ \A j \in 1..Len(got) :
                    got[j] = got[k] =>
                        all_results[j].confidence = all_results[k].confidence

C22_Witness ==
    /\ pc = "done"
    /\ Len(responses) = 3
    /\ \E a \in 1..3 : \E b \in 1..3 :
          /\ a # b
          /\ ~responses[a].raised /\ Len(responses[a].results) = 1
          /\ ~responses[b].raised /\ Len(responses[b].results) = 1
          /\ responses[b].results[1] = responses[a].results[1]
          /\ keywords[a] \notin InName[responses[a].results[1]]
          /\ keywords[b] \in InName[responses[a].results[1]]
          /\ \A k \in 1..Len(all_results) :
                all_results[k].id = responses[a].results[1].id
                    => all_results[k].confidence >= NAME_WEIGHT

\* the orders in which the answers of n searches can arrive
Orders ==
    [ n \in 0..MAX_KEYWORDS |->
        { f \in [1..n -> 1..n] : \A i \in 1..n : \A j \in 1..n : i # j => f[i] # f[j] } ]

\* the candidates of one answer with their scores for the keyword list kws
Scored(results, kws) ==
    [ j \in 1..Len(results) |->
        [ id |-> results[j].id, confidence |-> ConfidenceOf[kws][results[j]] ] ]

\* the pool built from the answers rs taken in the given order
RECURSIVE PoolInOrder(_, _, _, _)
PoolInOrder(rs, order, kws, i) ==
    IF i > Len(rs) THEN <<>>
    ELSE (IF rs[order[i]].raised THEN <<>> ELSE Scored(rs[order[i]].results, kws))
         \o PoolInOrder(rs, order, kws, i + 1)

\* C24: the returned confidence is the largest score of the whole pool, and
\* the selection made from the same answers arriving in any other order
\* returns the same confidence and the identifier of a candidate whose score
\* is that largest score.
C24_ConfidenceIndependentOfArrivalOrder ==
    (pc = "done" /\ all_results # <<>>) =>
        /\ \E k \in 1..Len(all_results) : all_results[k].confidence = ret[2]
        /\ \A k \in 1..Len(all_results) : all_results[k].confidence <= ret[2]
        /\ \A order \in Orders[Len(responses)] :
              \E other \in { selection(PoolInOrder(responses, order, keywords, 1)) } :
                  /\ other[2] = ret[2]
                  /\ \E k \in 1..Len(all_results) :
                        /\ all_results[k].id = other[1]
                        /\ all_results[k].confidence = ret[2]

C24_Witness ==
    /\ pc = "done"
    /\ Len(responses) >= 2
    /\ ret[1] # None
    /\ \E order \in Orders[Len(responses)] :
          \E other \in { selection(PoolInOrder(responses, order, keywords, 1)) } :
              /\ other[1] # ret[1]
              /\ other[2] = ret[2]

\* no keyword of the question occurs in the display name or the description
\* of any pooled candidate
NoKeywordInPool ==
    \A k \in 1..Len(Returned(responses)) : \A i \in 1..Len(keywords) :
        /\ keywords[i] \notin InName[Returned(responses)[k]]
        /\ keywords[i] \notin InDescription[Returned(responses)[k]]

\* C25: when no pooled candidate contains a keyword of the question in its
\* name or description, every score is at most 0.2, the returned confidence is
\* in the low tier, and _resolve_library called without a library and without
\* the skip flag raises the low-confidence error on that result.
C25_PopularityAloneIsRefused ==
    (pc = "done" /\ all_results # <<>> /\ NoKeywordInPool) =>
        /\ \A k \in 1..Len(all_results) : all_results[k].confidence <= POPULARITY_CAP
        /\ ret[1] # None
        /\ ret[2] <= POPULARITY_CAP
        /\ get_confidence_level(ret[2]) = "low"
        /\ \A lib \in {None, ""} : \A ver \in VersionOpts : \A dbg \in BOOLEAN :
              \E r \in { resolve_library(lib, ver, FALSE, dbg, ret) } :
                  /\ r.raised
                  /\ r.error = "ValueError"
                  /\ r.value = "Low confidence library match"

C25_Witness ==
    /\ pc = "done"
    /\ NoKeywordInPool
    /\ Len(all_results) >= 2
    /\ \E k \in 1..Len(all_results) :
          /\ Returned(responses)[k].popularity > 20
          /\ all_results[k].confidence = POPULARITY_CAP
    /\ ret[2] = POPULARITY_CAP
    /\ resolve_library(None, None, FALSE, FALSE, ret).raised

\* C26: with a library given on the command line, _resolve_library returns
\* that library, followed by "/" and the version when a version is given,
\* whether or not the skip flag is set; the resolver and the search interface
\* are never called, and the documentation request carries that identifier.
C26_ExplicitLibraryBypassesDetection ==
    (truthy(library) /\ outcome # <<>>) =>
        /\ ~outcome.raised
        /\ outcome.value = (IF truthy(version) THEN library \o "/" \o version ELSE library)
        /\ resolve_calls = <<>>
        /\ ret = <<>>
        /\ calls = <<>>
        /\ request # <<>> => request.libraryId = outcome.value

C26_Witness ==
    /\ pc = "done"
    /\ library = "/vercel/next.js"
    /\ version = "v15.0.0"
    /\ skip_detect
    /\ outcome.value = "/vercel/next.js/v15.0.0"
    /\ request.libraryId = "/vercel/next.js/v15.0.0"
    /\ resolve_calls = <<>>

\* main has gone past lines 70-107
MainStarted == pc \in { "resolve_library", "get_context", "done", "exit" }

TokensError == "Tokens must be between 1000 and 50000"

\* C27: main, given a question, rejects a token limit below 1000 or above
\* 50000 with an error and exit status 1 before the configuration is read
\* and before any search or documentation request; it accepts every limit
\* from 1000 to 50000, bounds included.  get_context, called on its own,
\* raises ValueError for a limit outside that range and sends no request.
C27_TokenLimitChecked ==
    /\ (MainStarted /\ question # <<>>) =>
          IF cli_tokens < 1000 \/ cli_tokens > 50000
          THEN /\ pc = "exit"
               /\ exit_code = 1
               /\ printed = << <<"error", TokensError, "ValueError">> >>
               /\ config_log = <<>>
               /\ main_api_key = None
               /\ resolve_calls = <<>>
               /\ request = <<>>
          ELSE /\ \A i \in 1..Len(printed) : printed[i][2] # TokensError
               /\ request # <<>> => request.tokens = cli_tokens
               /\ pc = "done" => request # <<>>
    /\ (pc = "client_done" /\ client_op.name = "get_context") =>
          IF client_op.arg[3] < 1000 \/ client_op.arg[3] > 50000
          THEN /\ client_op.result.raised
               /\ client_op.result.error = "ValueError"
               /\ client_op.http = <<>>
               /\ request = <<>>
          ELSE /\ client_op.result.error # "ValueError"
               /\ request # <<>>
               /\ request.tokens = client_op.arg[3]

C27_Witness ==
    /\ pc = "exit"
    /\ question # <<>>
    /\ cli_tokens = 50001
    /\ env_api_key = None
    /\ file.exists
    /\ config_log = <<>>
    /\ exit_code = 1
    /\ printed = << <<"error", TokensError, "ValueError">> >>

\* C28 (as claimed): an error of the documentation request that reaches
\* main's handlers is reported by the handler of its own class -- AuthError
\* as "Invalid API key. Run coderef --init to update.", RateLimitError as
\* "Rate limit exceeded. Please wait before retrying.", NotFoundError as
\* "Library not found. Check the --library flag." -- and main exits with
\* status 1.
C28_DedicatedHandlers ==
    \A i \in 1..Len(printed) :
        (printed[i][1] = "error" /\ Len(printed[i]) = 3) =>
            /\ exit_code = 1
            /\ printed[i][3] = "AuthError" =>
                  printed[i][2] = "Invalid API key. Run coderef --init to update."
            /\ printed[i][3] = "RateLimitError" =>
                  printed[i][2] = "Rate limit exceeded. Please wait before retrying."
            /\ printed[i][3] = "NotFoundError" =>
                  printed[i][2] = "Library not found. Check the --library flag."

\* the key get_api_key finds in the file, if any
StoredKey(f) ==
    IF HasStoredKey(f) THEN f.config["context7"]["api_key"] ELSE None

\* C29: given a question and a valid token limit, main uses the value of
\* CONTEXT7_API_KEY when it is set and not empty, without a call to the
\* ConfigManager; otherwise it uses the key stored in the configuration file;
\* when neither gives a key it exits with status 1 before the client is
\* built.  The resolver is called and a documentation request is made only
\* with a key.
C29_KeyFromEnvironmentThenFile ==
    /\ (MainStarted /\ question # <<>> /\ cli_tokens >= 1000 /\ cli_tokens <= 50000) =>
          IF truthy(env_api_key)
          THEN /\ main_api_key = env_api_key
               /\ config_log = <<>>
          ELSE IF truthy(StoredKey(file))
          THEN /\ main_api_key = StoredKey(file)
               /\ config_log = <<"config_exists", "get_api_key">>
          ELSE /\ main_api_key = None
               /\ pc = "exit"
               /\ exit_code = 1
               /\ outcome = <<>>
    /\ (outcome # <<>> \/ resolve_calls # <<>> \/ request # <<>>) => truthy(main_api_key)
    /\ pc \in { "resolve_library", "get_context", "done" } => truthy(main_api_key)

C29_Witness ==
    /\ pc = "done"
    /\ env_api_key = ""
    /\ main_api_key = "ctx7sk_file_key"
    /\ config_log = <<"config_exists", "get_api_key">>
    /\ request # <<>>

\* the error class _make_request is to raise for an HTTP status
ClassOfStatus(st) ==
    IF st \in { 401, 403 } THEN "AuthError"
    ELSE IF st = 404 THEN "NotFoundError"
    ELSE IF st = 429 THEN "RateLimitError"
    ELSE "APIError"

\* C30: validate_api_key never raises; it returns False exactly when the
\* probe request fails with status 401 or 403, and True when the request
\* succeeds and for every other failure (404, 429, 5xx, other HTTP errors,
\* failures without a status, network errors).  Every HTTP or transport
\* failure of a request leaves the client's methods as an APIError or a
\* subclass: AuthError for 401 and 403, NotFoundError for 404, RateLimitError
\* for 429, APIError itself otherwise.
C30_ValidateApiKeyAndErrorMapping ==
    (pc = "client_done" /\ client_op.http # <<>>) =>
        /\ client_op.name = "validate_api_key" =>
              /\ ~client_op.result.raised
              /\ client_op.result.value \in BOOLEAN
              /\ client_op.result.value = FALSE <=>
                    (client_op.http.kind = "http_error"
                     /\ client_op.http.status \in { 401, 403 })
        /\ (client_op.name # "validate_api_key"
            /\ client_op.http.kind \notin { "json", "text" }) =>
              /\ client_op.result.raised
              /\ isinstance(client_op.result.error, "APIError")
              /\ client_op.result.error =
                    (IF client_op.http.kind = "http_error"
                     THEN ClassOfStatus(client_op.http.status) ELSE "APIError")

C30_Witness ==
    /\ pc = "client_done"
    /\ client_op.name = "validate_api_key"
    /\ client_op.http.kind = "transport"
    /\ client_op.result = [ raised |-> FALSE, value |-> TRUE, error |-> None ]

\* C23: over any sequence of extract_keywords, calculate_confidence and
\* resolve_from_question calls on one resolver, the keyword list of the
\* resolver stays as __init__ built it, and a resolve_from_question call that
\* gets the same question and the same answers from the search interface as
\* an earlier call returns the same pair, whatever was called in between.
C23_StatelessAndDeterministic ==
    /\ catalog = all_keywords
    /\ (/\ pc = "done"
        /\ ref # <<>>
        /\ ref.question = question
        /\ ref.responses = responses)
       => ret = ref.ret

C23_Witness ==
    /\ pc = "done"
    /\ ref # <<>>
    /\ ref.between
    /\ ref.question = question
    /\ ref.responses = responses
    /\ Len(responses) = 1
    /\ responses[1].results # <<>>
    /\ ret = ref.ret
    /\ ret[1] # None

====
